---- MODULE Spec2Model ----
(***************************************************************************)
(* A model of the YOLO building blocks of nn_blocks.py (shape inference,   *)
(* data flow between sub-layers, construction and get_config) and of the   *)
(* Pix3D conversion script create_pix3d_tf_record.py, and of the decoder   *)
(* of classification_input.py.                                             *)
(*                                                                         *)
(* A tensor is a record: its static shape <<B, W, H, C>>, the name of the  *)
(* sub-layer that produced it (src), the set of sub-layers whose output    *)
(* flows into it (deps), the parts it was concatenated from, and the       *)
(* exception raised while computing it ("" when none).                     *)
(* A Python object is a record of its instance attributes, under the       *)
(* attribute names of the source, plus cls, the name of its class, and     *)
(* args, the keyword arguments of the constructor call that made it.       *)
(***************************************************************************)
EXTENDS Integers, Sequences, FiniteSets, TLC

VARIABLES
  layer,   \* the layer object the last constructor call produced, as built so far
  out,     \* the outcome of the last operation: its name, arguments and result
  fs,      \* the file system the conversion script works on
  gen,     \* the generator generate_annotations returned, as its consumer holds it
  zero_conv \* how the installed TensorFlow answers a convolution without filters

vars == <<layer, out, fs, gen, zero_conv>>

----------------------------------------------------------------------------
\* Bounds of the model.

MaxDim == 2        \* width and height of input tensors range over 1..MaxDim
MaxChan == 4       \* depths of input tensors and filters range over 1..MaxChan
MaxPool == 2       \* pool sizes range over 1..MaxPool
MaxSizes == 2      \* SPP is constructed with at most MaxSizes pool sizes
MaxUp == 2         \* upsampling factors range over 1..MaxUp
MaxReps == 6       \* DarkRouteProcess repetitions range over 1..MaxReps
MaxWrap == 2       \* CSPStack wraps lists of at most MaxWrap layers
MaxImages == 2     \* the Pix3D manifest lists at most MaxImages images

Dims == 1..MaxDim
Chans == 1..MaxChan
PoolSizes == 1..MaxPool

RECURSIVE SeqsUpTo(_, _)
SeqsUpTo(S, n) ==
  IF n = 0 THEN {<<>>}
  ELSE LET shorter == SeqsUpTo(S, n - 1)
       IN shorter \cup {Append(s, e) : s \in {t \in shorter : Len(t) = n - 1}, e \in S}

SizesLists == SeqsUpTo(PoolSizes, MaxSizes)

----------------------------------------------------------------------------
\* Python values shared by all operations.

NoLayer == [cls |-> "none"]

Reverse(s) == [i \in 1..Len(s) |-> s[Len(s) + 1 - i]]

CeilDiv(a, b) == (a + b - 1) \div b

\* kw[p] when the call passes the keyword p, the parameter's default otherwise
Arg(kw, p, default) == IF p \in DOMAIN kw THEN kw[p] ELSE default

\* a dict restricted to the keys in K
Restrict(d, K) == [k \in (DOMAIN d) \cap K |-> d[k]]

\* d1.update(d2)
Update(d1, d2) ==
  [k \in (DOMAIN d1) \cup (DOMAIN d2) |-> IF k \in DOMAIN d2 THEN d2[k] ELSE d1[k]]

\* The values an argument such as model_to_wrap or spp_keys takes: None, a
\* callable (a layer or model, which keeps the depth of its input when
\* depth = 0 and sets it to depth otherwise), a list, an instance of a list
\* subclass that defines __call__, a tuple, an int.
PyNone == [kind |-> "None", name |-> "None", depth |-> 0, items |-> <<>>]
PyCallable(name, depth) == [kind |-> "callable", name |-> name, depth |-> depth, items |-> <<>>]
PyList(items) == [kind |-> "list", name |-> "list", depth |-> 0, items |-> items]
PyCallableList(name, items) ==
  [kind |-> "callable_list", name |-> name, depth |-> 0, items |-> items]
PyTuple(items) == [kind |-> "tuple", name |-> "tuple", depth |-> 0, items |-> items]
PyInt(name) == [kind |-> "int", name |-> name, depth |-> 0, items |-> <<>>]

IsCallable(v) == v.kind \in {"callable", "callable_list"}

IsList(v) == v.kind \in {"list", "callable_list"}

----------------------------------------------------------------------------
\* Tensors.

Tensor(shape, src, deps, parts, ops) ==
  [shape |-> shape, src |-> src, deps |-> deps, parts |-> parts, ops |-> ops, err |-> ""]

InputTensor(w, h, c, name) == Tensor(<<1, w, h, c>>, name, {}, <<name>>, <<>>)

Raise(x, e) == [x EXCEPT !.err = e]

IsOk(x) == x.err = ""

InputTensors == {InputTensor(w, h, c, "inputs") : w \in Dims, h \in Dims, c \in Chans}

\* Output length of a convolution or pooling window along one spatial axis.
WindowOut(n, k, s, padding) ==
  IF padding = "same" THEN CeilDiv(n, s)
  ELSE IF n < k THEN 0 ELSE (n - k) \div s + 1

SameSpatial(a, b) ==
  /\ a.shape[1] = b.shape[1]
  /\ a.shape[2] = b.shape[2]
  /\ a.shape[3] = b.shape[3]

RECURSIVE SumChannels(_)
SumChannels(ts) ==
  IF Len(ts) = 0 THEN 0 ELSE ts[1].shape[4] + SumChannels(Tail(ts))

\* The names in srcs, separated by commas.
RECURSIVE Joined(_)
Joined(srcs) ==
  IF Len(srcs) = 0 THEN ""
  ELSE IF Len(srcs) = 1 THEN srcs[1]
  ELSE srcs[1] \o "," \o Joined(Tail(srcs))

RECURSIVE FirstError(_)
FirstError(ts) ==
  IF Len(ts) = 0 THEN ""
  ELSE IF ts[1].err # "" THEN ts[1].err ELSE FirstError(Tail(ts))

\* Concatenation along the last axis: every other axis must agree.
Concatenate(ts) ==
  LET t == Tensor(<<ts[1].shape[1], ts[1].shape[2], ts[1].shape[3], SumChannels(ts)>>,
                  "concat",
                  UNION {ts[i].deps : i \in 1..Len(ts)},
                  [i \in 1..Len(ts) |-> ts[i].src],
                  Append(ts[1].ops,
                         "Concatenate(" \o Joined([i \in 1..Len(ts) |-> ts[i].src]) \o ")"))
  IN IF FirstError(ts) # "" THEN Raise(t, FirstError(ts))
     ELSE IF \E i \in 1..Len(ts) : ~SameSpatial(ts[i], ts[1]) THEN Raise(t, "ValueError")
     ELSE t

\* Element-wise merge layers broadcast: two lengths of an axis are compatible
\* when they are equal or one of them is 1.
Broadcastable(a, b) == a = b \/ a = 1 \/ b = 1

BroadcastDim(a, b) == IF a = 1 THEN b ELSE a

\* tf.keras.layers.Add on two tensors.
Add(ts) ==
  LET a == ts[1]
      b == ts[2]
      t == Tensor(<<a.shape[1], BroadcastDim(a.shape[2], b.shape[2]),
                    BroadcastDim(a.shape[3], b.shape[3]),
                    BroadcastDim(a.shape[4], b.shape[4])>>,
                  "add", a.deps \cup b.deps, <<a.src, b.src>>,
                  Append(a.ops, "Add(" \o Joined(<<a.src, b.src>>) \o ")"))
  IN IF FirstError(ts) # "" THEN Raise(t, FirstError(ts))
     ELSE IF \E i \in 2..4 : ~Broadcastable(a.shape[i], b.shape[i])
          THEN Raise(t, "ValueError")
     ELSE t

----------------------------------------------------------------------------
\* tf.keras.layers.Layer: the keyword arguments its constructor accepts; any
\* other keyword raises TypeError.

LayerKwargs ==
  {"name", "trainable", "dtype", "dynamic", "input_dim", "input_shape",
   "batch_input_shape", "batch_size", "weights", "activity_regularizer",
   "autocast", "implementation"}

Layer_init_ok(kwargs) == (DOMAIN kwargs) \subseteq LayerKwargs

\* The attributes Layer.__init__ sets that Layer.get_config reports.
Layer_attrs(kwargs, default_name) ==
  [name |-> Arg(kwargs, "name", default_name),
   trainable |-> Arg(kwargs, "trainable", TRUE),
   dtype |-> Arg(kwargs, "dtype", "float32")]

Layer_get_config(self) ==
  [name |-> self.name, trainable |-> self.trainable, dtype |-> self.dtype]

\* The result of a constructor call: the object, or the exception raised.
Made(obj) == [err |-> "", obj |-> obj]
Failed(e) == [err |-> e, obj |-> NoLayer]

KwargsChoices == {[name |-> "a"], [name |-> "b", trainable |-> FALSE]}

----------------------------------------------------------------------------
\* MaxPool2D and UpSampling2D.

MaxPool2D(pool_size, strides, padding) ==
  [cls |-> "MaxPool2D", pool_size |-> pool_size, strides |-> strides, padding |-> padding]

MaxPool2D_call(self, x, name) ==
  IF ~IsOk(x) THEN x
  ELSE Tensor(<<x.shape[1],
                WindowOut(x.shape[2], self.pool_size[1], self.strides[1], self.padding),
                WindowOut(x.shape[3], self.pool_size[2], self.strides[2], self.padding),
                x.shape[4]>>,
              name, x.deps \cup {name}, <<name>>, Append(x.ops, name \o "/MaxPool2D"))

UpSampling2D(size) ==
  [cls |-> "UpSampling2D", size |-> IF Len(size) = 1 THEN <<size[1], size[1]>> ELSE size]

UpSampling2D_call(self, x, name) ==
  IF ~IsOk(x) THEN x
  ELSE Tensor(<<x.shape[1], x.shape[2] * self.size[1], x.shape[3] * self.size[2], x.shape[4]>>,
              name, x.deps \cup {name}, <<name>>, Append(x.ops, name \o "/UpSampling2D"))

----------------------------------------------------------------------------
\* SPP

\* SPP.__init__ that asks for more than one pool size.
SPP_init_more_than_one(sizes, kwargs) ==
  IF Len(sizes) <= 1 THEN Failed("ValueError")
  ELSE IF ~Layer_init_ok(kwargs) THEN Failed("TypeError")
  ELSE Made([cls |-> "SPP", _sizes |-> Reverse(sizes), built |-> FALSE]
            @@ Layer_attrs(kwargs, "spp"))

SPP_init(sizes, kwargs) ==
  IF Len(sizes) = 0 THEN Failed("ValueError")
  ELSE IF ~Layer_init_ok(kwargs) THEN Failed("TypeError")
  ELSE Made([cls |-> "SPP", _sizes |-> Reverse(sizes), built |-> FALSE]
            @@ Layer_attrs(kwargs, "spp"))

SPP_build(self) ==
  [_maxpools |-> [i \in 1..Len(self._sizes) |->
                    MaxPool2D(<<self._sizes[i], self._sizes[i]>>, <<1, 1>>, "same")]]
  @@ [self EXCEPT !.built = TRUE]

\* SPP.call without the input among the concatenated outputs.
SPP_call_without_input(self, inputs, name) ==
  LET outputs == [i \in 1..Len(self._maxpools) |->
                    MaxPool2D_call(self._maxpools[i], inputs,
                                   "maxpool" \o ToString(self._maxpools[i].pool_size[1]))]
      concat_output == Concatenate(outputs)
  IN [concat_output EXCEPT !.src = name, !.deps = @ \cup {name}]

SPP_call(self, inputs, name) ==
  LET outputs == [i \in 1..Len(self._maxpools) |->
                    MaxPool2D_call(self._maxpools[i], inputs,
                                   "maxpool" \o ToString(self._maxpools[i].pool_size[1]))]
      concat_output == Concatenate(Append(outputs, inputs))
  IN [concat_output EXCEPT !.src = name, !.deps = @ \cup {name}]

----------------------------------------------------------------------------
\* ConvBN

ConvBNParams ==
  {"filters", "kernel_size", "strides", "padding", "dilation_rate",
   "kernel_initializer", "bias_initializer", "kernel_regularizer",
   "bias_regularizer", "use_bn", "use_sync_bn", "norm_momentum", "norm_epsilon",
   "activation", "leaky_alpha"}

ConvBN_init(kw) ==
  LET kwargs == Restrict(kw, (DOMAIN kw) \ ConvBNParams)
  IN IF ~Layer_init_ok(kwargs) THEN Failed("TypeError")
     ELSE Made([cls |-> "ConvBN",
                _filters |-> Arg(kw, "filters", 1),
                _kernel_size |-> Arg(kw, "kernel_size", <<1, 1>>),
                _strides |-> Arg(kw, "strides", <<1, 1>>),
                _padding |-> Arg(kw, "padding", "same"),
                _dilation_rate |-> Arg(kw, "dilation_rate", <<1, 1>>),
                _kernel_initializer |-> Arg(kw, "kernel_initializer", "glorot_uniform"),
                _bias_initializer |-> Arg(kw, "bias_initializer", "zeros"),
                _kernel_regularizer |-> Arg(kw, "kernel_regularizer", "None"),
                _bias_regularizer |-> Arg(kw, "bias_regularizer", "None"),
                _use_bn |-> Arg(kw, "use_bn", TRUE),
                _use_sync_bn |-> Arg(kw, "use_sync_bn", FALSE),
                _norm_moment |-> Arg(kw, "norm_momentum", "0.99"),
                _norm_epsilon |-> Arg(kw, "norm_epsilon", "0.001"),
                _bn_axis |-> -1,
                _activation |-> Arg(kw, "activation", "leaky"),
                _leaky_alpha |-> Arg(kw, "leaky_alpha", "0.1"),
                built |-> FALSE]
               @@ Layer_attrs(kwargs, "conv_bn"))

\* ConvBN.build whose convolution always has a bias.
ConvBN_build_with_bias(self) ==
  [conv |-> [cls |-> "Conv2D", filters |-> self._filters,
             kernel_size |-> self._kernel_size, strides |-> self._strides,
             padding |-> self._padding, dilation_rate |-> self._dilation_rate,
             use_bias |-> TRUE],
   bn |-> IF self._use_bn
          THEN IF self._use_sync_bn THEN "SyncBatchNormalization"
               ELSE "BatchNormalization"
          ELSE "Identity",
   _activation_fn |-> IF self._activation = "leaky" THEN "LeakyReLU"
                      ELSE IF self._activation = "mish" THEN "mish"
                      ELSE self._activation]
  @@ [self EXCEPT !.built = TRUE]

\* ConvBN.build: the sub-layers it creates become attributes of the layer.
ConvBN_build(self) ==
  LET use_bias == ~self._use_bn
  IN [conv |-> [cls |-> "Conv2D", filters |-> self._filters,
                kernel_size |-> self._kernel_size, strides |-> self._strides,
                padding |-> self._padding, dilation_rate |-> self._dilation_rate,
                use_bias |-> use_bias],
      bn |-> IF self._use_bn
             THEN IF self._use_sync_bn THEN "SyncBatchNormalization"
                  ELSE "BatchNormalization"
             ELSE "Identity",
      _activation_fn |-> IF self._activation = "leaky" THEN "LeakyReLU"
                         ELSE IF self._activation = "mish" THEN "mish"
                         ELSE self._activation]
     @@ [self EXCEPT !.built = TRUE]

\* A convolution whose kernel has no elements (no filters, or an input that has
\* no channels) is answered differently by different builds of TensorFlow:
\* the constructor of Conv2D rejects filters = 0 with ValueError, or the
\* convolution kernel rejects the empty filter with InvalidArgumentError when
\* it runs, or ("") the convolution yields a tensor that has no channels.
ZeroConvOutcomes == {"ValueError", "InvalidArgumentError", ""}

\* The exception tf.keras.layers.Conv2D(filters=filters, ...) raises, if any.
Conv2D_init_err(filters) ==
  IF filters = 0 /\ zero_conv = "ValueError" THEN "ValueError" ELSE ""

Conv2D_call(conv, x, name) ==
  IF ~IsOk(x) THEN x
  ELSE IF zero_conv = "InvalidArgumentError" /\ (conv.filters = 0 \/ x.shape[4] = 0)
  THEN Raise(x, "InvalidArgumentError")
  ELSE Tensor(<<x.shape[1],
                WindowOut(x.shape[2], conv.kernel_size[1], conv.strides[1], conv.padding),
                WindowOut(x.shape[3], conv.kernel_size[2], conv.strides[2], conv.padding),
                conv.filters>>,
              name, x.deps \cup {name}, <<name>>, Append(x.ops, name \o "/Conv2D"))

\* Normalisation and activation keep the shape.
Elementwise(x, name, fn) ==
  IF ~IsOk(x) THEN x ELSE [x EXCEPT !.ops = Append(x.ops, name \o "/" \o fn)]

\* The Identity layer returns its input.
Identity == [cls |-> "Identity", built |-> FALSE]

Identity_call(self, inputs) == inputs

\* ConvBN.call that activates before it normalises.
ConvBN_call_activation_first(self, x, name) ==
  LET x1 == Conv2D_call(self.conv, x, name)
      x2 == Elementwise(x1, name, self._activation_fn)
      x3 == IF self.bn = Identity.cls THEN Identity_call(Identity, x2)
            ELSE Elementwise(x2, name, self.bn)
  IN x3

ConvBN_call(self, x, name) ==
  LET x1 == Conv2D_call(self.conv, x, name)
      x2 == IF self.bn = Identity.cls THEN Identity_call(Identity, x1)
            ELSE Elementwise(x1, name, self.bn)
      x3 == Elementwise(x2, name, self._activation_fn)
  IN x3

\* x, unless the statement that computed prev raised: the statements after it
\* are not reached, and the exception is what they propagate.
After(prev, x) == IF IsOk(prev) THEN x ELSE prev

\* Layer.__call__ on a sub-layer: build it on its first call, then call it.
\* ConvBN.build raises what the constructor of Conv2D raises.
Apply(sub, x, name) ==
  IF sub.cls = "ConvBN"
  THEN IF IsOk(x) /\ Conv2D_init_err(sub._filters) # ""
       THEN Raise(x, Conv2D_init_err(sub._filters))
       ELSE ConvBN_call(ConvBN_build(sub), x, name)
  ELSE IF sub.cls = "SPP" THEN SPP_call(SPP_build(sub), x, name)
  ELSE IF sub.cls = "Identity" THEN Identity_call(sub, x)
  ELSE Raise(x, "TypeError")

\* The sub-layer as Layer.__call__ on x leaves it: built, with the attributes
\* its build assigns.  A call that an earlier exception prevents leaves it as
\* it was, and so does a build that raises at its first statement.
Built(sub, x) ==
  IF ~IsOk(x) THEN sub
  ELSE IF sub.cls = "ConvBN"
  THEN IF Conv2D_init_err(sub._filters) # "" THEN sub ELSE ConvBN_build(sub)
  ELSE IF sub.cls = "SPP" THEN SPP_build(sub)
  ELSE IF sub.cls = "Identity" THEN [sub EXCEPT !.built = TRUE]
  ELSE sub

----------------------------------------------------------------------------
\* RouteMerge.  An int-or-tuple argument (upsample_size) is a sequence of
\* length 1 for an int and of length 2 for a tuple.  The attribute _upsample
\* holds the constructor's bool until build replaces it by the layer.

PyBool(b) == [cls |-> "bool", value |-> b]

Truthy(v) == IF v.cls = "bool" THEN v.value ELSE TRUE

RouteMergeParams ==
  {"filters", "kernel_initializer", "bias_initializer", "bias_regularizer",
   "kernel_regularizer", "use_bn", "use_sync_bn", "norm_momentum", "norm_epsilon",
   "activation", "leaky_alpha", "downsample", "upsample", "upsample_size"}

RouteMerge_init(kw) ==
  LET kwargs == Restrict(kw, (DOMAIN kw) \ RouteMergeParams)
  IN IF ~Layer_init_ok(kwargs) THEN Failed("TypeError")
     ELSE Made([cls |-> "RouteMerge",
                _filters |-> Arg(kw, "filters", 1),
                _kernel_initializer |-> Arg(kw, "kernel_initializer", "glorot_uniform"),
                _bias_initializer |-> Arg(kw, "bias_initializer", "zeros"),
                _bias_regularizer |-> Arg(kw, "bias_regularizer", "None"),
                _kernel_regularizer |-> Arg(kw, "kernel_regularizer", "None"),
                _use_bn |-> Arg(kw, "use_bn", TRUE),
                _use_sync_bn |-> Arg(kw, "use_sync_bn", FALSE),
                _norm_moment |-> Arg(kw, "norm_momentum", "0.99"),
                _norm_epsilon |-> Arg(kw, "norm_epsilon", "0.001"),
                _conv_activation |-> Arg(kw, "activation", "leaky"),
                _leaky_alpha |-> Arg(kw, "leaky_alpha", "0.1"),
                _downsample |-> Arg(kw, "downsample", FALSE),
                _upsample |-> PyBool(Arg(kw, "upsample", FALSE)),
                _upsample_size |-> Arg(kw, "upsample_size", <<2>>),
                built |-> FALSE]
               @@ Layer_attrs(kwargs, "route_merge"))

RouteMerge_build(self) ==
  LET _dark_conv_args ==
        [kernel_initializer |-> self._kernel_initializer,
         bias_initializer |-> self._bias_initializer,
         bias_regularizer |-> self._bias_regularizer,
         use_bn |-> self._use_bn,
         use_sync_bn |-> self._use_sync_bn,
         norm_momentum |-> self._norm_moment,
         norm_epsilon |-> self._norm_epsilon,
         activation |-> self._conv_activation,
         kernel_regularizer |-> self._kernel_regularizer,
         leaky_alpha |-> self._leaky_alpha]
      conv == IF self._downsample
              THEN ConvBN_init([filters |-> self._filters, kernel_size |-> <<3, 3>>,
                                strides |-> <<2, 2>>, padding |-> "same"]
                               @@ _dark_conv_args).obj
              ELSE ConvBN_init([filters |-> self._filters, kernel_size |-> <<1, 1>>,
                                strides |-> <<1, 1>>, padding |-> "same"]
                               @@ _dark_conv_args).obj
  IN [_conv |-> conv, _concat |-> [cls |-> "Concatenate", axis |-> -1]]
     @@ [self EXCEPT !._upsample = IF Truthy(self._upsample)
                                   THEN UpSampling2D(self._upsample_size)
                                   ELSE self._upsample,
                     !.built = TRUE]

\* RouteMerge.call that never upsamples.
RouteMerge_call_without_upsample(self, inputs) ==
  Concatenate(<<Apply(self._conv, inputs[1], "_conv"), inputs[2]>>)

RouteMerge_call(self, inputs) ==
  LET inputToConvolve == inputs[1]
      inputToConcat == inputs[2]
      x1 == Apply(self._conv, inputToConvolve, "_conv")
      x2 == IF Truthy(self._upsample)
            THEN UpSampling2D_call(self._upsample, x1, "_upsample")
            ELSE x1
  IN Concatenate(<<x2, inputToConcat>>)

\* The layer as RouteMerge.call leaves it: the convolution it calls is built.
RouteMerge_call_self(self, inputs) ==
  [self EXCEPT !._conv = Built(self._conv, inputs[1])]

----------------------------------------------------------------------------
\* DarkRouteProcess

DarkRouteProcessParams ==
  {"filters", "mod", "repetitions", "insert_spp", "kernel_initializer",
   "bias_initializer", "bias_regularizer", "use_sync_bn", "kernel_regularizer",
   "norm_momentum", "norm_epsilon", "activation", "leaky_alpha", "spp_keys"}

\* _get_layer_list that appends the trailing convolution whatever the parity.
_get_layer_list_always_append(self) ==
  Append([i \in 1..self._repetitions |->
            IF i = 2 /\ self._repetitions > 2 /\ self._insert_spp THEN "spp" ELSE "block"],
         "mono_conv")

_get_layer_list(self) ==
  LET layers == [i \in 1..self._repetitions |->
                   IF i = 2 /\ self._repetitions > 2 /\ self._insert_spp
                   THEN "spp" ELSE "block"]
      layer_config == IF self._repetitions > 0 THEN layers ELSE <<>>
  IN IF self._append_conv THEN Append(layer_config, "mono_conv") ELSE layer_config

DarkRouteProcess_init(kw) ==
  LET kwargs == Restrict(kw, (DOMAIN kw) \ DarkRouteProcessParams)
      repetitions == Arg(kw, "repetitions", 2)
      spp_keys == Arg(kw, "spp_keys", PyNone)
      self == [cls |-> "DarkRouteProcess",
               _filters |-> Arg(kw, "filters", 2) \div Arg(kw, "mod", 1),
               _use_sync_bn |-> Arg(kw, "use_sync_bn", FALSE),
               _kernel_initializer |-> Arg(kw, "kernel_initializer", "glorot_uniform"),
               _bias_initializer |-> Arg(kw, "bias_initializer", "zeros"),
               _bias_regularizer |-> Arg(kw, "bias_regularizer", "None"),
               _kernel_regularizer |-> Arg(kw, "kernel_regularizer", "None"),
               _norm_moment |-> Arg(kw, "norm_momentum", "0.99"),
               _norm_epsilon |-> Arg(kw, "norm_epsilon", "0.001"),
               _activation |-> Arg(kw, "activation", "leaky"),
               _leaky_alpha |-> Arg(kw, "leaky_alpha", "0.1"),
               _append_conv |-> (repetitions % 2 = 1),
               _repetitions |-> repetitions \div 2,
               _lim |-> repetitions,
               _insert_spp |-> Arg(kw, "insert_spp", FALSE),
               _spp_keys |-> IF spp_keys.kind # "None" THEN spp_keys.items
                             ELSE <<5, 9, 13>>,
               built |-> FALSE]
  IN IF ~Layer_init_ok(kwargs) THEN Failed("TypeError")
     ELSE Made([layer_list |-> _get_layer_list(self)] @@ self
               @@ Layer_attrs(kwargs, "dark_route_process"))

\* _block whose first convolution keeps the full number of filters.
_block_unhalved(self, filters, kwargs) ==
  LET x1 == ConvBN_init([filters |-> filters, kernel_size |-> <<1, 1>>,
                         strides |-> <<1, 1>>, padding |-> "same", use_bn |-> TRUE]
                        @@ kwargs).obj
      x2 == ConvBN_init([filters |-> filters, kernel_size |-> <<3, 3>>,
                         strides |-> <<1, 1>>, padding |-> "same", use_bn |-> TRUE]
                        @@ kwargs).obj
  IN <<x1, x2>>

_block(self, filters, kwargs) ==
  LET x1 == ConvBN_init([filters |-> filters \div 2, kernel_size |-> <<1, 1>>,
                         strides |-> <<1, 1>>, padding |-> "same", use_bn |-> TRUE]
                        @@ kwargs).obj
      x2 == ConvBN_init([filters |-> filters, kernel_size |-> <<3, 3>>,
                         strides |-> <<1, 1>>, padding |-> "same", use_bn |-> TRUE]
                        @@ kwargs).obj
  IN <<x1, x2>>

_spp(self, filters, kwargs) ==
  LET x1 == ConvBN_init([filters |-> filters \div 2, kernel_size |-> <<1, 1>>,
                         strides |-> <<1, 1>>, padding |-> "same", use_bn |-> TRUE]
                        @@ kwargs).obj
      x2 == SPP_init(self._spp_keys, <<>>)
  IN IF x2.err # "" THEN [err |-> x2.err, ret |-> <<>>]
     ELSE [err |-> "", ret |-> <<x1, x2.obj>>]

\* The loop of DarkRouteProcess.build over layer_list, with self.layers as
\* filled so far: the exception raised, if any, and self.layers afterwards.
RECURSIVE DarkRouteProcess_layers(_, _, _, _)
DarkRouteProcess_layers(self, layer_list, kwargs, layers) ==
  IF Len(layer_list) = 0 THEN [err |-> "", layers |-> layers]
  ELSE IF layer_list[1] = "block"
       THEN DarkRouteProcess_layers(self, Tail(layer_list), kwargs,
                                    layers \o _block(self, self._filters, kwargs))
  ELSE IF layer_list[1] = "spp"
       THEN LET r == _spp(self, self._filters, kwargs)
            IN IF r.err # "" THEN [err |-> r.err, layers |-> layers]
               ELSE DarkRouteProcess_layers(self, Tail(layer_list), kwargs,
                                            layers \o r.ret)
  ELSE IF layer_list[1] = "mono_conv"
       THEN DarkRouteProcess_layers(
              self, Tail(layer_list), kwargs,
              Append(layers,
                     ConvBN_init([filters |-> self._filters, kernel_size |-> <<3, 3>>,
                                  strides |-> <<1, 1>>, padding |-> "same",
                                  use_bn |-> TRUE] @@ kwargs).obj))
  ELSE DarkRouteProcess_layers(self, Tail(layer_list), kwargs, layers)

\* DarkRouteProcess.build: the exception raised, if any, and the layer as
\* build leaves it.
DarkRouteProcess_build(self) ==
  LET _dark_conv_args ==
        [kernel_initializer |-> self._kernel_initializer,
         bias_initializer |-> self._bias_initializer,
         bias_regularizer |-> self._bias_regularizer,
         use_sync_bn |-> self._use_sync_bn,
         norm_momentum |-> self._norm_moment,
         norm_epsilon |-> self._norm_epsilon,
         activation |-> self._activation,
         kernel_regularizer |-> self._kernel_regularizer,
         leaky_alpha |-> self._leaky_alpha]
      r == DarkRouteProcess_layers(self, self.layer_list, _dark_conv_args, <<>>)
  IN [err |-> r.err,
      obj |-> [layers |-> r.layers] @@ [self EXCEPT !.built = (r.err = "")]]

\* Whether a sub-layer creates trainable variables (a convolution kernel).
HasVariables(sub) == sub.cls = "ConvBN"

LayerName(i) == "layers[" \o ToString(i) \o "]"

\* The while loop of DarkRouteProcess.call, from index i (0-based) on.
RECURSIVE DarkRouteProcess_loop(_, _, _, _)
DarkRouteProcess_loop(self, x_prev, x, i) ==
  IF i < self._lim
  THEN IF i + 1 > Len(self.layers) THEN <<x, Raise(x, "IndexError")>>
       ELSE DarkRouteProcess_loop(self, x, Apply(self.layers[i + 1], x, LayerName(i)), i + 1)
  ELSE <<x_prev, x>>

DarkRouteProcess_call(self, inputs) == DarkRouteProcess_loop(self, inputs, inputs, 0)

\* The inputs the while loop of DarkRouteProcess.call passes to the sub-layers
\* it calls from index i (0-based) on, in order.
RECURSIVE DarkRouteProcess_loop_inputs(_, _, _)
DarkRouteProcess_loop_inputs(self, x, i) ==
  IF i < self._lim /\ i + 1 <= Len(self.layers)
  THEN <<x>> \o DarkRouteProcess_loop_inputs(
                  self, Apply(self.layers[i + 1], x, LayerName(i)), i + 1)
  ELSE <<>>

\* The layer as the while loop of DarkRouteProcess.call leaves it, from index i
\* on: each sub-layer it calls is built by the call.
DarkRouteProcess_loop_self(self, x, i) ==
  LET xs == DarkRouteProcess_loop_inputs(self, x, i)
  IN [self EXCEPT !.layers = [k \in 1..Len(self.layers) |->
                                IF i < k /\ k - i <= Len(xs)
                                THEN Built(self.layers[k], xs[k - i])
                                ELSE self.layers[k]]]

----------------------------------------------------------------------------
\* CSPRoute, CSPConnect and CSPStack

CSPParams ==
  {"filters", "filter_scale", "activation", "kernel_initializer", "bias_initializer",
   "kernel_regularizer", "bias_regularizer", "use_bn", "use_sync_bn",
   "norm_momentum", "norm_epsilon"}

\* The attributes the three CSP constructors assign alike.
CSP_attrs(kw) ==
  [_filters |-> kw.filters,
   _filter_scale |-> Arg(kw, "filter_scale", 2),
   _activation |-> Arg(kw, "activation", "mish"),
   _kernel_initializer |-> Arg(kw, "kernel_initializer", "glorot_uniform"),
   _bias_initializer |-> Arg(kw, "bias_initializer", "zeros"),
   _kernel_regularizer |-> Arg(kw, "kernel_regularizer", "None"),
   _bias_regularizer |-> Arg(kw, "bias_regularizer", "None"),
   _use_bn |-> Arg(kw, "use_bn", TRUE),
   _use_sync_bn |-> Arg(kw, "use_sync_bn", FALSE),
   _norm_moment |-> Arg(kw, "norm_momentum", "0.99"),
   _norm_epsilon |-> Arg(kw, "norm_epsilon", "0.001"),
   built |-> FALSE]

\* The _dark_conv_args that CSPRoute.build and CSPConnect.build pass to ConvBN.
CSP_conv_args(self) ==
  [kernel_initializer |-> self._kernel_initializer,
   bias_initializer |-> self._bias_initializer,
   bias_regularizer |-> self._bias_regularizer,
   use_bn |-> self._use_bn,
   use_sync_bn |-> self._use_sync_bn,
   norm_momentum |-> self._norm_moment,
   norm_epsilon |-> self._norm_epsilon,
   activation |-> self._activation,
   kernel_regularizer |-> self._kernel_regularizer]

CSPRoute_init(kw) ==
  LET kwargs == Restrict(kw, (DOMAIN kw) \ (CSPParams \cup {"downsample"}))
  IN IF ~Layer_init_ok(kwargs) THEN Failed("TypeError")
     ELSE Made([cls |-> "CSPRoute", _downsample |-> Arg(kw, "downsample", TRUE)]
               @@ CSP_attrs(kw) @@ Layer_attrs(kwargs, "csp_route"))

CSPRoute_build(self) ==
  [_conv1 |-> IF self._downsample
              THEN ConvBN_init([filters |-> self._filters, kernel_size |-> <<3, 3>>,
                                strides |-> <<2, 2>>] @@ CSP_conv_args(self)).obj
              ELSE ConvBN_init([filters |-> self._filters, kernel_size |-> <<3, 3>>,
                                strides |-> <<1, 1>>] @@ CSP_conv_args(self)).obj,
   _conv2 |-> ConvBN_init([filters |-> self._filters \div self._filter_scale,
                           kernel_size |-> <<1, 1>>, strides |-> <<1, 1>>]
                          @@ CSP_conv_args(self)).obj,
   _conv3 |-> ConvBN_init([filters |-> self._filters \div self._filter_scale,
                           kernel_size |-> <<1, 1>>, strides |-> <<1, 1>>]
                          @@ CSP_conv_args(self)).obj,
   _dark_conv_args |-> CSP_conv_args(self)]
  @@ [self EXCEPT !.built = TRUE]

\* CSPRoute.call whose second convolution is fed by the third.
CSPRoute_call_chained(self, inputs, name) ==
  LET x == Apply(self._conv1, inputs, name \o "._conv1")
      x3 == Apply(self._conv3, x, name \o "._conv3")
      y == Apply(self._conv2, x3, name \o "._conv2")
  IN <<x3, y>>

CSPRoute_call(self, inputs, name) ==
  LET x == Apply(self._conv1, inputs, name \o "._conv1")
      y == Apply(self._conv2, x, name \o "._conv2")
      x3 == Apply(self._conv3, After(y, x), name \o "._conv3")
  IN <<x3, y>>

\* The layer as CSPRoute.call leaves it.
CSPRoute_call_self(self, inputs) ==
  LET x == Apply(self._conv1, inputs, "_conv1")
      y == Apply(self._conv2, x, "_conv2")
  IN [self EXCEPT !._conv1 = Built(self._conv1, inputs),
                  !._conv2 = Built(self._conv2, x),
                  !._conv3 = Built(self._conv3, After(y, x))]

CSPConnect_init(kw) ==
  LET kwargs == Restrict(kw, (DOMAIN kw) \ CSPParams)
  IN IF ~Layer_init_ok(kwargs) THEN Failed("TypeError")
     ELSE Made([cls |-> "CSPConnect"] @@ CSP_attrs(kw) @@ Layer_attrs(kwargs, "csp_connect"))

\* CSPConnect.build whose last convolution keeps the depth of the concatenation.
CSPConnect_build_unprojected(self) ==
  [_conv1 |-> ConvBN_init([filters |-> self._filters \div self._filter_scale,
                           kernel_size |-> <<1, 1>>, strides |-> <<1, 1>>]
                          @@ CSP_conv_args(self)).obj,
   _conv2 |-> ConvBN_init([filters |-> 2 * (self._filters \div self._filter_scale),
                           kernel_size |-> <<1, 1>>, strides |-> <<1, 1>>]
                          @@ CSP_conv_args(self)).obj,
   _concat |-> [cls |-> "Concatenate", axis |-> -1],
   _dark_conv_args |-> CSP_conv_args(self)]
  @@ [self EXCEPT !.built = TRUE]

CSPConnect_build(self) ==
  [_conv1 |-> ConvBN_init([filters |-> self._filters \div self._filter_scale,
                           kernel_size |-> <<1, 1>>, strides |-> <<1, 1>>]
                          @@ CSP_conv_args(self)).obj,
   _conv2 |-> ConvBN_init([filters |-> self._filters, kernel_size |-> <<1, 1>>,
                           strides |-> <<1, 1>>] @@ CSP_conv_args(self)).obj,
   _concat |-> [cls |-> "Concatenate", axis |-> -1],
   _dark_conv_args |-> CSP_conv_args(self)]
  @@ [self EXCEPT !.built = TRUE]

CSPConnect_call(self, inputs, name) ==
  LET x_prev == inputs[1]
      x_csp == inputs[2]
      x1 == Apply(self._conv1, x_prev, name \o "._conv1")
      x2 == Concatenate(<<x1, x_csp>>)
  IN Apply(self._conv2, x2, name \o "._conv2")

\* The layer as CSPConnect.call leaves it.
CSPConnect_call_self(self, inputs) ==
  LET x1 == Apply(self._conv1, inputs[1], "_conv1")
      x2 == Concatenate(<<x1, inputs[2]>>)
  IN [self EXCEPT !._conv1 = Built(self._conv1, inputs[1]),
                  !._conv2 = Built(self._conv2, x2)]

\* CSPStack.__init__ that wraps every value that is not None in a list.
CSPStack_init_wrap_all(kw) ==
  Made([cls |-> "CSPStack", _downsample |-> Arg(kw, "downsample", TRUE),
        _model_to_wrap |-> IF Arg(kw, "model_to_wrap", PyNone).kind = "None"
                           THEN PyList(<<>>)
                           ELSE PyList(<<kw.model_to_wrap>>)]
       @@ CSP_attrs(kw) @@ Layer_attrs(<<>>, "csp_stack"))

CSPStack_init(kw) ==
  LET kwargs == Restrict(kw, (DOMAIN kw) \ (CSPParams \cup {"downsample", "model_to_wrap"}))
      model_to_wrap == Arg(kw, "model_to_wrap", PyNone)
      self == [cls |-> "CSPStack", _downsample |-> Arg(kw, "downsample", TRUE)]
              @@ CSP_attrs(kw) @@ Layer_attrs(kwargs, "csp_stack")
  IN IF ~Layer_init_ok(kwargs) THEN Failed("TypeError")
     ELSE IF model_to_wrap.kind # "None"
          THEN IF IsCallable(model_to_wrap)
               THEN Made([_model_to_wrap |-> PyList(<<model_to_wrap>>)] @@ self)
               ELSE IF IsList(model_to_wrap)
                    THEN Made([_model_to_wrap |-> model_to_wrap] @@ self)
                    ELSE Failed("ValueError")
          ELSE Made([_model_to_wrap |-> PyList(<<>>)] @@ self)

CSPStack_build(self) ==
  LET _dark_conv_args ==
        [filters |-> self._filters,
         filter_scale |-> self._filter_scale,
         activation |-> self._activation,
         kernel_initializer |-> self._kernel_initializer,
         bias_initializer |-> self._bias_initializer,
         bias_regularizer |-> self._bias_regularizer,
         use_bn |-> self._use_bn,
         use_sync_bn |-> self._use_sync_bn,
         norm_momentum |-> self._norm_moment,
         norm_epsilon |-> self._norm_epsilon,
         kernel_regularizer |-> self._kernel_regularizer]
  IN [_route |-> CSPRoute_init([downsample |-> self._downsample] @@ _dark_conv_args).obj,
      _connect |-> CSPConnect_init(_dark_conv_args).obj,
      _dark_conv_args |-> _dark_conv_args]
     @@ [self EXCEPT !.built = TRUE]

\* Calling an element of model_to_wrap.
Wrapped_call(m, x) ==
  IF ~IsOk(x) THEN x
  ELSE IF ~IsCallable(m) THEN Raise(x, "TypeError")
  ELSE Tensor(<<x.shape[1], x.shape[2], x.shape[3],
                IF m.depth = 0 THEN x.shape[4] ELSE m.depth>>,
              m.name, x.deps \cup {m.name}, <<m.name>>, Append(x.ops, m.name))

Called(callee, args, ret) == [callee |-> callee, args |-> args, ret |-> ret]

\* The for loop of CSPStack.call over the layers not yet applied: the calls it
\* makes, in order.  An exception raised by a call ends the loop.
RECURSIVE CSPStack_loop(_, _)
CSPStack_loop(todo, x) ==
  IF Len(todo) = 0 THEN <<>>
  ELSE LET y == Wrapped_call(todo[1], x)
       IN <<Called(todo[1].name, <<x>>, <<y>>)>>
          \o (IF IsOk(y) THEN CSPStack_loop(Tail(todo), y) ELSE <<>>)

\* The last statement of CSPStack.call, self._connect([x, x_route]), after
\* self._route has returned r and the for loop has made the calls `loop`.
CSPStack_call_connect(self, inputs, r, loop) ==
  LET x_route == r[2]
      x == IF Len(loop) = 0 THEN r[1] ELSE loop[Len(loop)].ret[1]
      res == CSPConnect_call(CSPConnect_build(self._connect), <<x, x_route>>, "_connect")
  IN IF ~IsOk(x)
     THEN [res |-> x, trace |-> <<Called("_route", <<inputs>>, r)>> \o loop]
     ELSE [res |-> res,
           trace |-> <<Called("_route", <<inputs>>, r)>> \o loop
                     \o <<Called("_connect", <<x, x_route>>, <<res>>)>>]

\* CSPStack.call from its for loop on, after self._route has returned r; the
\* loop is not reached when self._route raised.
CSPStack_call_wrap(self, inputs, r) ==
  CSPStack_call_connect(self, inputs, r,
                        IF IsOk(r[1]) THEN CSPStack_loop(self._model_to_wrap.items, r[1])
                        ELSE <<>>)

\* CSPStack.call that runs the wrapped layers on the passthrough branch.
CSPStack_call_wraps_route(self, inputs) ==
  LET r == CSPRoute_call(CSPRoute_build(self._route), inputs, "_route")
      loop == CSPStack_loop(self._model_to_wrap.items, r[2])
      x == IF Len(loop) = 0 THEN r[2] ELSE loop[Len(loop)].ret[1]
      res == CSPConnect_call(CSPConnect_build(self._connect), <<r[1], x>>, "_connect")
  IN IF ~IsOk(x)
     THEN [res |-> x, trace |-> <<Called("_route", <<inputs>>, r)>> \o loop]
     ELSE [res |-> res,
           trace |-> <<Called("_route", <<inputs>>, r)>> \o loop
                     \o <<Called("_connect", <<r[1], x>>, <<res>>)>>]

\* CSPStack.call: the result and the calls made on sub-layers, in order (each
\* sub-layer is built on its first call).  An exception raised by self._route
\* or in the loop leaves call before self._connect is called.
CSPStack_call(self, inputs) ==
  CSPStack_call_wrap(self, inputs,
                     CSPRoute_call(CSPRoute_build(self._route), inputs, "_route"))

\* The layer as CSPStack.call leaves it: the sub-layers it calls are built,
\* and so are theirs.
CSPStack_call_self(self, inputs) ==
  LET route == CSPRoute_build(self._route)
      r == CSPRoute_call(route, inputs, "_route")
      loop == CSPStack_loop(self._model_to_wrap.items, r[1])
      x == IF Len(loop) = 0 THEN r[1] ELSE loop[Len(loop)].ret[1]
  IN [self EXCEPT !._route = CSPRoute_call_self(route, inputs),
                  !._connect = IF IsOk(x)
                               THEN CSPConnect_call_self(CSPConnect_build(self._connect),
                                                         <<x, r[2]>>)
                               ELSE self._connect]

----------------------------------------------------------------------------
\* DarkResidual and CSPTiny.

DarkResidualParams ==
  {"filters", "filter_scale", "kernel_initializer", "bias_initializer",
   "kernel_regularizer", "bias_regularizer", "use_bn", "use_sync_bn",
   "norm_momentum", "norm_epsilon", "activation", "leaky_alpha", "sc_activation",
   "downsample"}

DarkResidual_init(kw) ==
  LET kwargs == Restrict(kw, (DOMAIN kw) \ DarkResidualParams)
  IN IF ~Layer_init_ok(kwargs) THEN Failed("TypeError")
     ELSE Made([cls |-> "DarkResidual",
                _downsample |-> Arg(kw, "downsample", FALSE),
                _filters |-> Arg(kw, "filters", 1),
                _filter_scale |-> Arg(kw, "filter_scale", 2),
                _kernel_initializer |-> Arg(kw, "kernel_initializer", "glorot_uniform"),
                _bias_initializer |-> Arg(kw, "bias_initializer", "zeros"),
                _bias_regularizer |-> Arg(kw, "bias_regularizer", "None"),
                _use_bn |-> Arg(kw, "use_bn", TRUE),
                _use_sync_bn |-> Arg(kw, "use_sync_bn", FALSE),
                _kernel_regularizer |-> Arg(kw, "kernel_regularizer", "None"),
                _norm_moment |-> Arg(kw, "norm_momentum", "0.99"),
                _norm_epsilon |-> Arg(kw, "norm_epsilon", "0.001"),
                _conv_activation |-> Arg(kw, "activation", "leaky"),
                _leaky_alpha |-> Arg(kw, "leaky_alpha", "0.1"),
                _sc_activation |-> Arg(kw, "sc_activation", "linear"),
                built |-> FALSE]
               @@ Layer_attrs(kwargs, "dark_residual"))

DarkResidual_build(self) ==
  LET _dark_conv_args ==
        [kernel_initializer |-> self._kernel_initializer,
         bias_initializer |-> self._bias_initializer,
         bias_regularizer |-> self._bias_regularizer,
         use_bn |-> self._use_bn,
         use_sync_bn |-> self._use_sync_bn,
         norm_momentum |-> self._norm_moment,
         norm_epsilon |-> self._norm_epsilon,
         activation |-> self._conv_activation,
         kernel_regularizer |-> self._kernel_regularizer,
         leaky_alpha |-> self._leaky_alpha]
  IN [_dconv |-> IF self._downsample
                 THEN ConvBN_init([filters |-> self._filters, kernel_size |-> <<3, 3>>,
                                   strides |-> <<2, 2>>, padding |-> "same"]
                                  @@ _dark_conv_args).obj
                 ELSE Identity,
      _conv1 |-> ConvBN_init([filters |-> self._filters \div self._filter_scale,
                              kernel_size |-> <<1, 1>>, strides |-> <<1, 1>>,
                              padding |-> "same"] @@ _dark_conv_args).obj,
      _conv2 |-> ConvBN_init([filters |-> self._filters, kernel_size |-> <<3, 3>>,
                              strides |-> <<1, 1>>, padding |-> "same"]
                             @@ _dark_conv_args).obj,
      _shortcut |-> [cls |-> "Add"],
      _activation_fn |-> IF self._sc_activation = "leaky" THEN "LeakyReLU"
                         ELSE IF self._sc_activation = "mish" THEN "mish"
                         ELSE self._sc_activation,
      _dark_conv_args |-> _dark_conv_args]
     @@ [self EXCEPT !.built = TRUE]

\* DarkResidual.call: the result and the two operands of the addition.
DarkResidual_call(self, inputs, name) ==
  LET shortcut == Apply(self._dconv, inputs, name \o "._dconv")
      x1 == Apply(self._conv1, shortcut, name \o "._conv1")
      x2 == Apply(self._conv2, x1, name \o "._conv2")
      x3 == Add(<<x2, shortcut>>)
  IN [res |-> Elementwise(x3, name, self._activation_fn), operands |-> <<x2, shortcut>>]

\* The layer as DarkResidual.call leaves it.
DarkResidual_call_self(self, inputs) ==
  LET shortcut == Apply(self._dconv, inputs, "_dconv")
      x1 == Apply(self._conv1, shortcut, "_conv1")
  IN [self EXCEPT !._dconv = Built(self._dconv, inputs),
                  !._conv1 = Built(self._conv1, shortcut),
                  !._conv2 = Built(self._conv2, x1)]

CSPTinyParams ==
  {"filters", "kernel_initializer", "bias_initializer", "kernel_regularizer",
   "bias_regularizer", "use_bn", "use_sync_bn", "group_id", "groups",
   "norm_momentum", "norm_epsilon", "activation", "downsample", "leaky_alpha"}

CSPTiny_init(kw) ==
  LET kwargs == Restrict(kw, (DOMAIN kw) \ CSPTinyParams)
  IN IF ~Layer_init_ok(kwargs) THEN Failed("TypeError")
     ELSE Made([cls |-> "CSPTiny",
                _filters |-> Arg(kw, "filters", 1),
                _kernel_initializer |-> Arg(kw, "kernel_initializer", "glorot_uniform"),
                _bias_initializer |-> Arg(kw, "bias_initializer", "zeros"),
                _bias_regularizer |-> Arg(kw, "bias_regularizer", "None"),
                _use_bn |-> Arg(kw, "use_bn", TRUE),
                _use_sync_bn |-> Arg(kw, "use_sync_bn", FALSE),
                _kernel_regularizer |-> Arg(kw, "kernel_regularizer", "None"),
                _groups |-> Arg(kw, "groups", 2),
                _group_id |-> Arg(kw, "group_id", 1),
                _downsample |-> Arg(kw, "downsample", TRUE),
                _norm_moment |-> Arg(kw, "norm_momentum", "0.99"),
                _norm_epsilon |-> Arg(kw, "norm_epsilon", "0.001"),
                _conv_activation |-> Arg(kw, "activation", "leaky"),
                _leaky_alpha |-> Arg(kw, "leaky_alpha", "0.1"),
                built |-> FALSE]
               @@ Layer_attrs(kwargs, "csp_tiny"))

\* tf.split(value, num_or_size_splits, axis=-1) with an integer number of
\* splits: that many tensors of equal depth.  A depth the number does not
\* divide raises InvalidArgumentError when the call runs eagerly and
\* ValueError when it runs on symbolic tensors.
tf_split(value, num_or_size_splits, eager) ==
  LET part == Tensor(<<value.shape[1], value.shape[2], value.shape[3],
                       value.shape[4] \div num_or_size_splits>>,
                     value.src, value.deps, <<value.src>>, Append(value.ops, "split"))
  IN IF ~IsOk(value) THEN <<value>>
     ELSE IF value.shape[4] % num_or_size_splits # 0
     THEN <<Raise(value, IF eager THEN "InvalidArgumentError" ELSE "ValueError")>>
     ELSE [i \in 1..num_or_size_splits |-> part]

CSPTiny_build(self) ==
  LET _dark_conv_args ==
        [kernel_initializer |-> self._kernel_initializer,
         bias_initializer |-> self._bias_initializer,
         bias_regularizer |-> self._bias_regularizer,
         use_bn |-> self._use_bn,
         use_sync_bn |-> self._use_sync_bn,
         norm_momentum |-> self._norm_moment,
         norm_epsilon |-> self._norm_epsilon,
         activation |-> self._conv_activation,
         kernel_regularizer |-> self._kernel_regularizer,
         leaky_alpha |-> self._leaky_alpha]
  IN [_dark_conv_args |-> _dark_conv_args,
      _convlayer1 |-> ConvBN_init([filters |-> self._filters, kernel_size |-> <<3, 3>>,
                                   strides |-> <<1, 1>>, padding |-> "same"]
                                  @@ _dark_conv_args).obj,
      _convlayer2 |-> ConvBN_init([filters |-> self._filters \div 2,
                                   kernel_size |-> <<3, 3>>, strides |-> <<1, 1>>,
                                   padding |-> "same"] @@ _dark_conv_args).obj,
      _convlayer3 |-> ConvBN_init([filters |-> self._filters \div 2,
                                   kernel_size |-> <<3, 3>>, strides |-> <<1, 1>>,
                                   padding |-> "same"] @@ _dark_conv_args).obj,
      _convlayer4 |-> ConvBN_init([filters |-> self._filters, kernel_size |-> <<1, 1>>,
                                   strides |-> <<1, 1>>, padding |-> "same"]
                                  @@ _dark_conv_args).obj,
      _maxpool |-> MaxPool2D(<<2, 2>>, <<2, 2>>, "same")]
     @@ [self EXCEPT !.built = TRUE]

\* x1_group of CSPTiny.call: tf.split(x1, self._groups, axis=-1)[self._group_id]
CSPTiny_group(self, x1, eager) ==
  LET groups == tf_split(x1, self._groups, eager)
  IN IF ~IsOk(groups[1]) THEN groups[1]
     ELSE IF self._group_id + 1 > Len(groups) THEN Raise(x1, "IndexError")
     ELSE groups[self._group_id + 1]

\* CSPTiny.call from self._convlayer2 on, given x1 and x1_group: the pair
\* (x, x5) it returns.  tf.concat(values, axis=-1) joins as Concatenate does.
CSPTiny_call_grouped(self, x1, x1_group) ==
  LET x2 == Apply(self._convlayer2, x1_group, "_convlayer2")
      x3 == Apply(self._convlayer3, x2, "_convlayer3")
      x4 == Concatenate(<<x3, x2>>)
      x5 == Apply(self._convlayer4, x4, "_convlayer4")
      x == Concatenate(<<x1, x5>>)
  IN <<IF self._downsample THEN MaxPool2D_call(self._maxpool, x, "_maxpool") ELSE x, x5>>

\* CSPTiny.call from the split on, given x1.
CSPTiny_call_split(self, x1, eager) ==
  CSPTiny_call_grouped(self, x1, CSPTiny_group(self, x1, eager))

CSPTiny_call(self, inputs, eager) ==
  CSPTiny_call_split(self, Apply(self._convlayer1, inputs, "_convlayer1"), eager)

\* The layer as CSPTiny.call leaves it, given x1 and x1_group: the convolutions
\* it calls are built.
CSPTiny_call_self_grouped(self, inputs, x1_group) ==
  LET x2 == Apply(self._convlayer2, x1_group, "_convlayer2")
      x3 == Apply(self._convlayer3, x2, "_convlayer3")
      x4 == Concatenate(<<x3, x2>>)
  IN [self EXCEPT !._convlayer1 = Built(self._convlayer1, inputs),
                  !._convlayer2 = Built(self._convlayer2, x1_group),
                  !._convlayer3 = Built(self._convlayer3, x2),
                  !._convlayer4 = Built(self._convlayer4, x4)]

\* The layer as CSPTiny.call leaves it.
CSPTiny_call_self(self, inputs, eager) ==
  CSPTiny_call_self_grouped(
    self, inputs,
    CSPTiny_group(self, Apply(self._convlayer1, inputs, "_convlayer1"), eager))

----------------------------------------------------------------------------
\* get_config.  A dict literal {key: self.attr, ...} is the sequence of its
\* <<key, attr>> pairs; evaluating it reads the attributes in order, and the
\* first attribute the object lacks raises AttributeError.

ConvBN_config_items ==
  << <<"filters", "_filters">>, <<"kernel_size", "_kernel_size">>,
     <<"strides", "_strides">>, <<"padding", "_padding">>,
     <<"dilation_rate", "_dilation_rate">>,
     <<"kernel_initializer", "_kernel_initializer">>,
     <<"bias_initializer", "_bias_initializer">>,
     <<"bias_regularizer", "_bias_regularizer">>,
     <<"kernel_regularizer", "_kernel_regularizer">>,
     <<"use_bn", "_use_bn">>, <<"use_sync_bn", "_use_sync_bn">>,
     <<"norm_moment", "_norm_moment">>, <<"norm_epsilon", "_norm_epsilon">>,
     <<"activation", "_activation">>, <<"leaky_alpha", "_leaky_alpha">> >>

DarkResidual_config_items ==
  << <<"filters", "_filters">>,
     <<"kernel_initializer", "_kernel_initializer">>,
     <<"bias_initializer", "_bias_initializer">>,
     <<"kernel_regularizer", "_kernel_regularizer">>,
     <<"use_bn", "_use_bn">>, <<"use_sync_bn", "_use_sync_bn">>,
     <<"norm_moment", "_norm_moment">>, <<"norm_epsilon", "_norm_epsilon">>,
     <<"activation", "_conv_activation">>, <<"leaky_alpha", "_leaky_alpha">>,
     <<"sc_activation", "_sc_activation">>, <<"downsample", "_downsample">> >>

CSPTiny_config_items ==
  << <<"filters", "_filters">>, <<"strides", "_strides">>,
     <<"kernel_initializer", "_kernel_initializer">>,
     <<"bias_initializer", "_bias_initializer">>,
     <<"kernel_regularizer", "_kernel_regularizer">>,
     <<"use_bn", "_use_bn">>, <<"use_sync_bn", "_use_sync_bn">>,
     <<"norm_moment", "_norm_moment">>, <<"norm_epsilon", "_norm_epsilon">>,
     <<"activation", "_conv_activation">>, <<"leaky_alpha", "_leaky_alpha">>,
     <<"sc_activation", "_sc_activation">> >>

SPP_config_items == << <<"sizes", "_sizes">> >>

\* The object's own attributes: those the constructor assigned.
Attrs(self) == (DOMAIN self) \ {"cls", "args"}

\* The attributes a dict literal reads that the object lacks, in reading order.
Missing(self, items) ==
  SelectSeq([i \in 1..Len(items) |-> items[i][2]], LAMBDA a : a \notin Attrs(self))

\* layer_config = {...}; layer_config.update(super().get_config()); return it
Config(self, items) ==
  IF Len(Missing(self, items)) > 0
  THEN [err |-> "AttributeError", attr |-> Missing(self, items)[1], config |-> <<>>]
  ELSE [err |-> "", attr |-> "",
        config |-> Update([k \in {items[i][1] : i \in 1..Len(items)} |->
                             self[items[CHOOSE i \in 1..Len(items) : items[i][1] = k][2]]],
                          Layer_get_config(self))]

ConvBN_get_config(self) == Config(self, ConvBN_config_items)

DarkResidual_get_config(self) == Config(self, DarkResidual_config_items)

CSPTiny_get_config(self) == Config(self, CSPTiny_config_items)

SPP_get_config(self) == Config(self, SPP_config_items)

get_config(self) ==
  IF self.cls = "ConvBN" THEN ConvBN_get_config(self)
  ELSE IF self.cls = "DarkResidual" THEN DarkResidual_get_config(self)
  ELSE IF self.cls = "CSPTiny" THEN CSPTiny_get_config(self)
  ELSE SPP_get_config(self)

\* cls(**config)
from_config(cls, config) ==
  IF cls = "ConvBN" THEN ConvBN_init(config)
  ELSE IF cls = "DarkResidual" THEN DarkResidual_init(config)
  ELSE IF cls = "CSPTiny" THEN CSPTiny_init(config)
  ELSE IF "sizes" \in DOMAIN config
       THEN SPP_init(config.sizes, Restrict(config, (DOMAIN config) \ {"sizes"}))
       ELSE Failed("TypeError")

----------------------------------------------------------------------------
\* create_pix3d_tf_record.py

\* The keys of an entry of the Pix3D manifest pix3d.json.
ManifestKeys ==
  {"img", "category", "img_size", "2d_keypoints", "mask", "img_source", "model",
   "model_raw", "model_source", "3d_keypoints", "voxel", "rot_mat", "trans_mat",
   "focal_length", "cam_position", "inplane_rotation", "truncated", "occluded",
   "slightly_occluded", "bbox"}

\* Entry id of the manifest: the value of key k is written k:id.
ManifestEntry(id) == [k \in ManifestKeys |-> k \o ":" \o id]

\* The dict literal generate_annotations yields, as <<key, key read from image>>.
generate_annotations_items ==
  << <<"img", "img">>, <<"category", "category">>, <<"img_size", "img_size">>,
     <<"2d_keypoints", "2d_keypoints">>, <<"mask", "mask">>,
     <<"img_source", "img_source">>, <<"model", "model">>,
     <<"model_raw", "model_raw">>, <<"model_source", "model_source">>,
     <<"3d_keypoints", "3d_keypoints">>, <<"voxel", "voxel">>,
     <<"rot_mat", "rot_mat">>, <<"trans_mat", "trans_mat">>,
     <<"focal_length", "focal_length">>, <<"cam_position", "cam_position">>,
     <<"inplane_rotation", "inplane_rotation">>, <<"truncated", "truncated">>,
     <<"occluded", "occluded">>, <<"slightly_ocluded", "slightly_occluded">>,
     <<"bbox", "bbox">> >>

\* No generator: the script has not called generate_annotations.
NoGen == [state |-> "none"]

\* generate_annotations(images, pix3d_dir): calling a generator function runs
\* none of its body; it returns the generator, suspended before the loop.
generate_annotations(images, pix3d_dir) ==
  [state |-> "suspended", images |-> images, pix3d_dir |-> pix3d_dir, next |-> 1]

\* The dict literal of the yield statement, evaluated on one entry: the keys
\* are read in the order written, and the first one missing raises KeyError.
generate_annotations_dict(image, pix3d_dir) ==
  LET items == generate_annotations_items
      absent == SelectSeq([i \in 1..Len(items) |-> items[i][2]],
                          LAMBDA k : k \notin DOMAIN image)
  IN IF Len(absent) > 0 THEN [err |-> "KeyError", key |-> absent[1], value |-> <<>>]
     ELSE [err |-> "", key |-> "",
           value |-> [k \in {items[i][1] : i \in 1..Len(items)} \cup {"pix3d_dir"} |->
                        IF k = "pix3d_dir" THEN pix3d_dir
                        ELSE image[items[CHOOSE i \in 1..Len(items) : items[i][1] = k][2]]]]

\* next(g): the generator runs up to its next yield, to the end of the loop
\* (StopIteration) or to an exception, which finishes it.
generate_annotations_next(g) ==
  IF g.state # "suspended"
  THEN [err |-> "StopIteration", key |-> "", value |-> <<>>, gen |-> g]
  ELSE IF g.next > Len(g.images)
  THEN [err |-> "StopIteration", key |-> "", value |-> <<>>,
        gen |-> [g EXCEPT !.state = "finished"]]
  ELSE LET r == generate_annotations_dict(g.images[g.next], g.pix3d_dir)
       IN IF r.err # ""
          THEN [err |-> r.err, key |-> r.key, value |-> <<>>,
                gen |-> [g EXCEPT !.state = "finished"]]
          ELSE [err |-> "", key |-> "", value |-> r.value,
                gen |-> [g EXCEPT !.next = g.next + 1]]

\* The module os has no attribute join (the function is os.path.join).
OsHasJoin == FALSE

\* The statements of create_tf_example that read the image dict, in order:
\* the source line, whether the statement calls os.join, and the keys read.
Stmt(line, os_join, keys) == [line |-> line, os_join |-> os_join, keys |-> keys]

create_tf_example_stmts ==
  << Stmt(71, TRUE, <<"pix3d_dir", "img">>),
     Stmt(74, FALSE, <<"img_size">>),
     Stmt(75, FALSE, <<"img">>),
     Stmt(76, FALSE, <<"category">>),
     Stmt(77, FALSE, <<"2d_keypoints">>),
     Stmt(86, TRUE, <<"pix3d_dir", "mask">>),
     Stmt(91, TRUE, <<"pix3d_dir", "model">>),
     Stmt(94, TRUE, <<"pix3d_dir", "3d_keypoints">>),
     Stmt(97, FALSE, <<"model_raw">>),
     Stmt(98, FALSE, <<"model_source">>),
     Stmt(105, TRUE, <<"pix3d_dir", "voxel">>),
     Stmt(108, FALSE, <<"rot_mat">>),
     Stmt(109, FALSE, <<"trans_mat">>),
     Stmt(110, FALSE, <<"focal_length">>),
     Stmt(111, FALSE, <<"cam_positon">>),
     Stmt(112, FALSE, <<"inplane_rotation">>),
     Stmt(113, FALSE, <<"truncated">>),
     Stmt(114, FALSE, <<"occluded">>),
     Stmt(115, FALSE, <<"slightly_occluded">>),
     Stmt(116, FALSE, <<"bbox">>) >>

\* Every key create_tf_example reads from its argument.
create_tf_example_keys ==
  UNION {{create_tf_example_stmts[i].keys[j] : j \in 1..Len(create_tf_example_stmts[i].keys)}
         : i \in 1..Len(create_tf_example_stmts)}

\* The path a statement opens: the directory of the record joined with the
\* relative path the record names.
PathJoin(a, b) == a \o "/" \o b

\* The keys of a record that name files.
FileKeys == {"img", "mask", "model", "3d_keypoints", "voxel"}

\* Running the statements in order: the first exception raised, or none.  A
\* statement that opens a file evaluates os.join, then its arguments, then
\* opens the file for reading.
RECURSIVE RunStmts(_, _)
RunStmts(stmts, image) ==
  IF Len(stmts) = 0 THEN [err |-> "", line |-> 0, key |-> ""]
  ELSE LET st == stmts[1]
           absent == SelectSeq(st.keys, LAMBDA k : k \notin DOMAIN image)
       IN IF st.os_join /\ ~OsHasJoin
          THEN [err |-> "AttributeError", line |-> st.line, key |-> ""]
          ELSE IF Len(absent) > 0
          THEN [err |-> "KeyError", line |-> st.line, key |-> absent[1]]
          ELSE IF st.os_join /\ PathJoin(image[st.keys[1]], image[st.keys[2]]) \notin fs.files
          THEN [err |-> "NotFoundError", line |-> st.line, key |-> st.keys[2]]
          ELSE RunStmts(Tail(stmts), image)

\* create_tf_example(image): the exception it raises, or the pair it returns.
create_tf_example(image) ==
  LET r == RunStmts(create_tf_example_stmts, image)
  IN r @@ [returned |-> (r.err = ""), num_annotations_skipped |-> 0]

\* _create_tf_record_from_pix3d_dir: the calls made before the first exception.
_create_tf_record_from_pix3d_dir(pix3d_dir, output_path, num_shards) ==
  IF ~OsHasJoin
  THEN [err |-> "AttributeError", line |-> 159, calls |-> <<"logging.info">>]
  ELSE [err |-> "", line |-> 0,
        calls |-> <<"logging.info", "json.load", "generate_annotations",
                    "tfrecord_lib.write_tf_record_dataset", "logging.info">>]

\* os.path.dirname on the output prefixes of the model.
Dirname(path) ==
  IF path = "/tmp/train" THEN "/tmp"
  ELSE IF path = "/out/pix3d/train" THEN "/out/pix3d"
  ELSE ""

\* main(_): the exception raised, the directories afterwards, the calls made.
main(flags, dirs) ==
  IF Len(flags.pix3d_dir) = 0
  THEN [err |-> "AssertionError", dirs |-> dirs, calls |-> <<>>]
  ELSE LET directory == Dirname(flags.output_file_prefix)
       IN IF directory \notin dirs
          THEN [err |-> "", dirs |-> dirs \cup {directory},
                calls |-> <<"os.path.dirname", "tf.io.gfile.isdir", "tf.io.gfile.makedirs">>]
          ELSE [err |-> "", dirs |-> dirs,
                calls |-> <<"os.path.dirname", "tf.io.gfile.isdir">>]

----------------------------------------------------------------------------
\* classification_input.py.  An image is a uint8 tensor of shape
\* [height, width, channels]; an example is a dict, a function on its keys.

ImageTensor(height, width, channels, pixels) ==
  [dtype |-> "uint8", shape |-> <<height, width, channels>>, pixels |-> pixels]

\* tf.io.encode_jpeg(image, quality): a JPEG string, or the exception raised
\* for a number of channels that JPEG does not have.
encode_jpeg(image, quality) ==
  IF image.shape[3] \notin {1, 3}
  THEN [err |-> "InvalidArgumentError", value |-> <<>>]
  ELSE [err |-> "",
        value |-> [dtype |-> "string", format |-> "jpeg", quality |-> quality,
                   height |-> image.shape[1], width |-> image.shape[2],
                   channels |-> image.shape[3], of |-> image.pixels]]

\* tf.image.extract_jpeg_shape(contents)
extract_jpeg_shape(contents) == <<contents.height, contents.width, contents.channels>>

\* Decoder.decode that fills in and returns the dict it was given.
Decoder_decode_in_place(serialized_example) ==
  IF "image" \notin DOMAIN serialized_example
  THEN [err |-> "KeyError", key |-> "image", res |-> <<>>, printed |-> <<>>,
        example |-> serialized_example]
  ELSE LET encoded == encode_jpeg(serialized_example["image"], 100)
       IN IF encoded.err # ""
          THEN [err |-> encoded.err, key |-> "", res |-> <<>>, printed |-> <<>>,
                example |-> serialized_example]
          ELSE IF "label" \notin DOMAIN serialized_example
          THEN [err |-> "KeyError", key |-> "label", res |-> <<>>, printed |-> <<>>,
                example |-> serialized_example]
          ELSE LET sample_dict == Update(serialized_example,
                                         ("image/encoded" :> encoded.value)
                                         @@ ("image/class/label" :> serialized_example["label"]))
               IN [err |-> "", key |-> "", res |-> sample_dict,
                   printed |-> <<extract_jpeg_shape(sample_dict["image/encoded"])>>,
                   example |-> sample_dict]

\* Decoder.decode(serialized_example): the exception raised or the dict
\* returned, what tf.print wrote, and the argument as the call leaves it.
Decoder_decode(serialized_example) ==
  IF "image" \notin DOMAIN serialized_example
  THEN [err |-> "KeyError", key |-> "image", res |-> <<>>, printed |-> <<>>,
        example |-> serialized_example]
  ELSE LET encoded == encode_jpeg(serialized_example["image"], 100)
       IN IF encoded.err # ""
          THEN [err |-> encoded.err, key |-> "", res |-> <<>>, printed |-> <<>>,
                example |-> serialized_example]
          ELSE IF "label" \notin DOMAIN serialized_example
          THEN [err |-> "KeyError", key |-> "label", res |-> <<>>, printed |-> <<>>,
                example |-> serialized_example]
          ELSE LET sample_dict == ("image/encoded" :> encoded.value)
                                  @@ ("image/class/label" :> serialized_example["label"])
               IN [err |-> "", key |-> "", res |-> sample_dict,
                   printed |-> <<extract_jpeg_shape(sample_dict["image/encoded"])>>,
                   example |-> serialized_example]

----------------------------------------------------------------------------
\* Actions.  A behaviour is one run of a test or script: it constructs one
\* layer and applies one operation to it (Layer.__call__ builds the layer on
\* its first call and then calls it).

Fresh == out.op = "none"

JustMade(cls) == layer.cls = cls /\ out.op = cls \o ".__init__"

\* The object a constructor call yields, with the keyword arguments of the call
\* kept in args.
Object(r, kw) == IF r.err = "" THEN [args |-> kw] @@ r.obj ELSE r.obj

Filters == 1..MaxChan

UpSizes == {<<2>>} \cup {<<a, b>> : a \in 1..MaxUp, b \in 1..MaxUp}

NewSPP ==
  /\ Fresh
  /\ \E sizes \in SizesLists, kwargs \in KwargsChoices :
       LET r == SPP_init(sizes, kwargs)
       IN /\ layer' = Object(r, [sizes |-> sizes] @@ kwargs)
          /\ out' = [op |-> "SPP.__init__", sizes |-> sizes, err |-> r.err]
  /\ UNCHANGED <<fs, gen, zero_conv>>

CallSPP ==
  /\ JustMade("SPP")
  /\ \E x \in InputTensors :
       LET built == SPP_build(layer)
           res == SPP_call(built, x, "spp")
       IN /\ layer' = built
          /\ out' = [op |-> "SPP.call", inputs |-> x, res |-> res, err |-> res.err]
  /\ UNCHANGED <<fs, gen, zero_conv>>

NewRouteMerge ==
  /\ Fresh
  /\ \E filters \in Filters, downsample \in BOOLEAN, upsample \in BOOLEAN,
        upsample_size \in UpSizes :
       LET kw == [filters |-> filters, downsample |-> downsample,
                  upsample |-> upsample, upsample_size |-> upsample_size]
           r == RouteMerge_init(kw)
       IN /\ layer' = Object(r, kw)
          /\ out' = [op |-> "RouteMerge.__init__", err |-> r.err]
  /\ UNCHANGED <<fs, gen, zero_conv>>

\* The route input is drawn at the spatial sizes the merge can bring the
\* convolved input to (upsampled, halved) and at the size of the convolved input.
RouteInputs(self, x) ==
  LET size == UpSampling2D(self._upsample_size).size
      spatial == {<<x.shape[2] * size[1], x.shape[3] * size[2]>>,
                  <<x.shape[2], x.shape[3]>>,
                  <<CeilDiv(x.shape[2], 2), CeilDiv(x.shape[3], 2)>>}
  IN {InputTensor(wh[1], wh[2], c, "x_route") : wh \in spatial, c \in Chans}

CallRouteMerge ==
  /\ JustMade("RouteMerge")
  /\ \E x_conv \in InputTensors :
       \E x_route \in RouteInputs(layer, x_conv) :
         LET built == RouteMerge_build(layer)
             res == RouteMerge_call(built, <<x_conv, x_route>>)
         IN /\ layer' = RouteMerge_call_self(built, <<x_conv, x_route>>)
            /\ out' = [op |-> "RouteMerge.call", inputs |-> <<x_conv, x_route>>,
                       res |-> res, err |-> res.err]
  /\ UNCHANGED <<fs, gen, zero_conv>>

SppKeys == {PyNone, PyList(<<>>), PyList(<<5, 9, 13>>)}

NewDarkRouteProcess ==
  /\ Fresh
  /\ \E filters \in Filters, mod \in {1, 2}, repetitions \in 1..MaxReps,
        insert_spp \in BOOLEAN, spp_keys \in SppKeys :
       /\ filters \div mod >= 2
       /\ LET kw == [filters |-> filters, mod |-> mod, repetitions |-> repetitions,
                     insert_spp |-> insert_spp, spp_keys |-> spp_keys]
              r == DarkRouteProcess_init(kw)
          IN /\ layer' = Object(r, kw)
             /\ out' = [op |-> "DarkRouteProcess.__init__", err |-> r.err]
  /\ UNCHANGED <<fs, gen, zero_conv>>

CallDarkRouteProcess ==
  /\ JustMade("DarkRouteProcess")
  /\ \E x \in InputTensors :
       LET built == DarkRouteProcess_build(layer)
           res == DarkRouteProcess_call(built.obj, x)
       IN IF built.err # ""
          THEN /\ layer' = built.obj
               /\ out' = [op |-> "DarkRouteProcess.call", inputs |-> x, res |-> <<>>,
                          err |-> built.err]
          ELSE /\ layer' = DarkRouteProcess_loop_self(built.obj, x, 0)
               /\ out' = [op |-> "DarkRouteProcess.call", inputs |-> x, res |-> res,
                          err |-> res[2].err]
  /\ UNCHANGED <<fs, gen, zero_conv>>

Callables == {PyCallable("m1", 0), PyCallable("m2", 0), PyCallable("m3", 1)}

\* The elements of a list: a list may hold what is not callable.
WrapItems == Callables \cup {PyInt("3")}

ModelsToWrap ==
  {PyNone} \cup Callables \cup {PyList(items) : items \in SeqsUpTo(WrapItems, MaxWrap)}
  \cup {PyCallableList("m4", <<PyCallable("m1", 0)>>), PyTuple(<<PyCallable("m1", 0)>>),
        PyInt("3")}

NewCSPStack ==
  /\ Fresh
  /\ \E filters \in Filters, filter_scale \in {1, 2}, downsample \in BOOLEAN,
        model_to_wrap \in ModelsToWrap :
       LET kw == [filters |-> filters, filter_scale |-> filter_scale,
                  downsample |-> downsample, model_to_wrap |-> model_to_wrap]
           r == CSPStack_init(kw)
       IN /\ layer' = Object(r, kw)
          /\ out' = [op |-> "CSPStack.__init__", model_to_wrap |-> model_to_wrap,
                     err |-> r.err]
  /\ UNCHANGED <<fs, gen, zero_conv>>

CallCSPStack ==
  /\ JustMade("CSPStack")
  /\ \E x \in InputTensors :
       LET built == CSPStack_build(layer)
           r == CSPStack_call(built, x)
       IN /\ layer' = CSPStack_call_self(built, x)
          /\ out' = [op |-> "CSPStack.call", inputs |-> x, res |-> r.res,
                     trace |-> r.trace, err |-> r.res.err]
  /\ UNCHANGED <<fs, gen, zero_conv>>

Activations == {"leaky", "mish", "linear"}

NewConvBN ==
  /\ Fresh
  /\ \E filters \in Filters, strides \in {<<1, 1>>, <<2, 2>>}, use_bn \in BOOLEAN,
        use_sync_bn \in BOOLEAN, activation \in Activations, kwargs \in KwargsChoices :
       LET kw == [filters |-> filters, kernel_size |-> <<3, 3>>, strides |-> strides,
                  use_bn |-> use_bn, use_sync_bn |-> use_sync_bn,
                  activation |-> activation] @@ kwargs
           r == ConvBN_init(kw)
       IN /\ layer' = Object(r, kw)
          /\ out' = [op |-> "ConvBN.__init__", err |-> r.err]
  /\ UNCHANGED <<fs, gen, zero_conv>>

CallConvBN ==
  /\ JustMade("ConvBN")
  /\ \E x \in InputTensors :
       LET built == ConvBN_build(layer)
           res == ConvBN_call(built, x, "conv_bn")
       IN /\ layer' = built
          /\ out' = [op |-> "ConvBN.call", inputs |-> x, res |-> res, err |-> res.err]
  /\ UNCHANGED <<fs, gen, zero_conv>>

NewDarkResidual ==
  /\ Fresh
  /\ \E filters \in Filters, filter_scale \in {1, 2}, downsample \in BOOLEAN,
        sc_activation \in Activations, kwargs \in KwargsChoices :
       /\ filters \div filter_scale >= 1
       /\ LET kw == [filters |-> filters, filter_scale |-> filter_scale,
                     downsample |-> downsample, sc_activation |-> sc_activation] @@ kwargs
              r == DarkResidual_init(kw)
          IN /\ layer' = Object(r, kw)
             /\ out' = [op |-> "DarkResidual.__init__", err |-> r.err]
  /\ UNCHANGED <<fs, gen, zero_conv>>

CallDarkResidual ==
  /\ JustMade("DarkResidual")
  /\ \E x \in InputTensors :
       LET built == DarkResidual_build(layer)
           r == DarkResidual_call(built, x, "dark_residual")
       IN /\ layer' = DarkResidual_call_self(built, x)
          /\ out' = [op |-> "DarkResidual.call", inputs |-> x, res |-> r.res,
                     operands |-> r.operands, err |-> r.res.err]
  /\ UNCHANGED <<fs, gen, zero_conv>>

NewCSPRoute ==
  /\ Fresh
  /\ \E filters \in Filters, filter_scale \in {1, 2}, downsample \in BOOLEAN :
       /\ filters \div filter_scale >= 1
       /\ LET kw == [filters |-> filters, filter_scale |-> filter_scale,
                     downsample |-> downsample]
              r == CSPRoute_init(kw)
          IN /\ layer' = Object(r, kw)
             /\ out' = [op |-> "CSPRoute.__init__", err |-> r.err]
  /\ UNCHANGED <<fs, gen, zero_conv>>

CallCSPRoute ==
  /\ JustMade("CSPRoute")
  /\ \E x \in InputTensors :
       LET built == CSPRoute_build(layer)
           res == CSPRoute_call(built, x, "csp_route")
       IN /\ layer' = CSPRoute_call_self(built, x)
          /\ out' = [op |-> "CSPRoute.call", inputs |-> x, res |-> res,
                     err |-> res[1].err]
  /\ UNCHANGED <<fs, gen, zero_conv>>

\* The outcome of layer(x) on a CSPTiny that returned, or raised, res.
CallCSPTiny_out(x, eager, res) ==
  [op |-> "CSPTiny.call", inputs |-> x, eager |-> eager, res |-> res,
   err |-> FirstError(res)]

\* The groups and group_id arguments of CSPTiny: the defaults, the first group,
\* and an index past the last group.
TinyGroups == {<<2, 1>>, <<2, 0>>, <<2, 2>>}

NewCSPTiny ==
  /\ Fresh
  /\ \E filters \in Filters, downsample \in BOOLEAN, use_bn \in BOOLEAN,
        g \in TinyGroups, kwargs \in KwargsChoices :
       LET kw == [filters |-> filters, downsample |-> downsample, use_bn |-> use_bn,
                  groups |-> g[1], group_id |-> g[2]]
                 @@ kwargs
           r == CSPTiny_init(kw)
       IN /\ layer' = Object(r, kw)
          /\ out' = [op |-> "CSPTiny.__init__", err |-> r.err]
  /\ UNCHANGED <<fs, gen, zero_conv>>

\* layer(x) on a CSPTiny, eagerly or on a symbolic tensor.
CallCSPTiny ==
  /\ JustMade("CSPTiny")
  /\ \E x \in InputTensors, eager \in BOOLEAN :
       LET built == CSPTiny_build(layer)
       IN /\ layer' = CSPTiny_call_self(built, x, eager)
          /\ out' = CallCSPTiny_out(x, eager, CSPTiny_call(built, x, eager))
  /\ UNCHANGED <<fs, gen, zero_conv>>

Serializable == {"ConvBN", "DarkResidual", "CSPTiny", "SPP"}

\* layer.get_config()
GetConfig ==
  /\ layer.cls \in Serializable
  /\ JustMade(layer.cls)
  /\ LET c == get_config(layer)
     IN out' = [op |-> "get_config", err |-> c.err, attr |-> c.attr, config |-> c.config]
  /\ UNCHANGED <<layer, fs, gen, zero_conv>>

\* cls(**layer.get_config()), and the get_config() of the layer it yields
Reconstruct ==
  /\ layer.cls \in Serializable
  /\ JustMade(layer.cls)
  /\ LET c == get_config(layer)
         r == IF c.err = "" THEN from_config(layer.cls, c.config) ELSE Failed(c.err)
         c2 == IF r.err = "" THEN get_config(r.obj) ELSE [err |-> r.err, config |-> <<>>]
     IN out' = [op |-> "reconstruct", err |-> c2.err, config |-> c.config,
                copy |-> r.obj, copy_config |-> c2.config]
  /\ UNCHANGED <<layer, fs, gen, zero_conv>>

\* The conversion script runs in a process of its own, which constructs no layer.
ImageIds == {"0001", "0002"}

\* The entries of a manifest: complete ones, and one that lacks a key.
ManifestEntries ==
  {ManifestEntry(id) : id \in ImageIds}
  \cup {Restrict(ManifestEntry("0002"), ManifestKeys \ {"bbox"})}

Manifests == SeqsUpTo(ManifestEntries, MaxImages)

Pix3dDirs == {"/data/pix3d", "/data/other"}

FlagValues ==
  [pix3d_dir : {<<>>, <<"">>, <<"/data/pix3d">>},
   output_file_prefix : {"/tmp/train", "/out/pix3d/train"},
   num_shards : {1, 32}]

Main ==
  /\ Fresh
  /\ \E flags \in FlagValues :
       LET r == main(flags, fs.dirs)
       IN /\ out' = [op |-> "main", flags |-> flags, err |-> r.err, calls |-> r.calls]
          /\ fs' = [fs EXCEPT !.dirs = r.dirs]
  /\ UNCHANGED <<layer, gen, zero_conv>>

CreateTfRecordFromPix3dDir ==
  /\ Fresh
  /\ \E pix3d_dir \in Pix3dDirs, output_path \in {"/tmp/train", "/out/pix3d/train"},
        num_shards \in {1, 32} :
       LET r == _create_tf_record_from_pix3d_dir(pix3d_dir, output_path, num_shards)
       IN out' = [op |-> "_create_tf_record_from_pix3d_dir", pix3d_dir |-> pix3d_dir,
                  output_path |-> output_path, num_shards |-> num_shards,
                  err |-> r.err, line |-> r.line, calls |-> r.calls]
  /\ UNCHANGED <<layer, fs, gen, zero_conv>>

\* g = generate_annotations(images, pix3d_dir)
GenerateAnnotations ==
  /\ Fresh
  /\ \E images \in Manifests, pix3d_dir \in Pix3dDirs :
       /\ gen' = generate_annotations(images, pix3d_dir)
       /\ out' = [op |-> "generate_annotations", images |-> images,
                  pix3d_dir |-> pix3d_dir, err |-> ""]
  /\ UNCHANGED <<layer, fs, zero_conv>>

\* next(g), by the consumer of the generator
NextAnnotation ==
  /\ gen.state = "suspended"
  /\ out.op \in {"generate_annotations", "next", "create_tf_example"}
  /\ LET r == generate_annotations_next(gen)
     IN /\ gen' = r.gen
        /\ out' = [op |-> "next", err |-> r.err, key |-> r.key, res |-> r.value]
  /\ UNCHANGED <<layer, fs, zero_conv>>

\* create_tf_example on the record the generator has just yielded
CreateTfExample ==
  /\ out.op = "next"
  /\ out.err = ""
  /\ LET r == create_tf_example(out.res)
     IN out' = [op |-> "create_tf_example", image |-> out.res, err |-> r.err,
                line |-> r.line, key |-> r.key, returned |-> r.returned]
  /\ UNCHANGED <<layer, fs, gen, zero_conv>>

\* The examples a dataset hands to the decoder: an image and a label, with
\* or without a further feature, and examples that lack one of the two.
Images ==
  {ImageTensor(h, w, c, p) : h \in Dims, w \in Dims, c \in {1, 3, 4}, p \in {"a", "b"}}

Labels == {0, 7}

Examples ==
  {[image |-> i, label |-> l] : i \in Images, l \in Labels}
  \cup {[image |-> i, label |-> l, file_name |-> "n"] : i \in Images, l \in Labels}
  \cup {[image |-> i] : i \in Images}
  \cup {[label |-> l] : l \in Labels}

\* Decoder().decode(serialized_example)
Decode ==
  /\ Fresh
  /\ \E serialized_example \in Examples :
       LET r == Decoder_decode(serialized_example)
       IN out' = [op |-> "Decoder.decode", serialized_example |-> serialized_example,
                  err |-> r.err, key |-> r.key, res |-> r.res, printed |-> r.printed,
                  example_after |-> r.example]
  /\ UNCHANGED <<layer, fs, gen, zero_conv>>

Init ==
  /\ layer = NoLayer
  /\ out = [op |-> "none", err |-> ""]
  /\ gen = NoGen
  /\ zero_conv \in ZeroConvOutcomes
  /\ fs = [dirs |-> {"/tmp", "/data/pix3d"},
           files |-> {PathJoin("/data/pix3d", ManifestEntry("0001")[k]) : k \in FileKeys}]

Next ==
  \/ NewSPP
  \/ CallSPP
  \/ NewRouteMerge
  \/ CallRouteMerge
  \/ NewDarkRouteProcess
  \/ CallDarkRouteProcess
  \/ NewCSPStack
  \/ CallCSPStack
  \/ NewConvBN
  \/ CallConvBN
  \/ NewDarkResidual
  \/ CallDarkResidual
  \/ NewCSPRoute
  \/ CallCSPRoute
  \/ NewCSPTiny
  \/ CallCSPTiny
  \/ GetConfig
  \/ Reconstruct
  \/ Main
  \/ CreateTfRecordFromPix3dDir
  \/ GenerateAnnotations
  \/ NextAnnotation
  \/ CreateTfExample
  \/ Decode

Spec == Init /\ [][Next]_vars

----------------------------------------------------------------------------
\* C1: for every input of shape [B, W, H, C] and every non-empty list sizes,
\* SPP(sizes) returns a tensor of shape [B, W, H, C * (len(sizes) + 1)].
C1_SppShape ==
  out.op = "SPP.call" =>
    /\ out.err = ""
    /\ out.res.shape = <<out.inputs.shape[1], out.inputs.shape[2], out.inputs.shape[3],
                         out.inputs.shape[4] * (Len(layer.args.sizes) + 1)>>

C1_Witness ==
  /\ out.op = "SPP.call"
  /\ Len(layer.args.sizes) = 2
  /\ out.inputs.shape = <<1, 2, 1, 3>>
  /\ out.res.shape = <<1, 2, 1, 9>>

\* The case of C2: insert_spp=False, mod=1 and an input of depth filters.
C2_Case ==
  /\ out.op = "DarkRouteProcess.call"
  /\ ~layer.args.insert_spp
  /\ layer.args.mod = 1
  /\ out.inputs.shape[4] = layer.args.filters

\* C2 as stated: for every repetitions >= 1, in that case DarkRouteProcess
\* returns exactly two tensors and each has the shape [B, W, H, filters] of the
\* input.
C2_Original ==
  C2_Case =>
    /\ out.err = ""
    /\ Len(out.res) = 2
    /\ out.res[1].shape = out.inputs.shape
    /\ out.res[2].shape = out.inputs.shape

\* C2 amended: in that case (filters >= 2) DarkRouteProcess returns exactly two
\* tensors; the second has shape [B, W, H, filters]; the first has shape
\* [B, W, H, filters] when repetitions is odd and [B, W, H, filters // 2] when
\* repetitions is even.
C2_RouteProcessShapes ==
  C2_Case =>
    /\ out.err = ""
    /\ Len(out.res) = 2
    /\ out.res[2].shape = out.inputs.shape
    /\ out.res[1].shape =
         IF layer.args.repetitions % 2 = 1 THEN out.inputs.shape
         ELSE <<out.inputs.shape[1], out.inputs.shape[2], out.inputs.shape[3],
                layer.args.filters \div 2>>

C2_Witness ==
  /\ C2_Case
  /\ layer.args.repetitions = 4
  /\ layer.args.filters = 4
  /\ out.res[1].shape[4] = 2
  /\ out.res[2].shape[4] = 4

\* C3: RouteMerge(filters=F, upsample=True, upsample_size=(s0, s1)) called on
\* [x_conv, x_route] with x_conv of shape [B, W, H, *] and x_route of shape
\* [B, W*s0, H*s1, Cr] returns a tensor of shape [B, W*s0, H*s1, F + Cr].
C3_Case ==
  /\ out.op = "RouteMerge.call"
  /\ layer.args.upsample
  /\ ~layer.args.downsample
  /\ out.inputs[2].shape =
       <<out.inputs[1].shape[1],
         out.inputs[1].shape[2] * UpSampling2D(layer.args.upsample_size).size[1],
         out.inputs[1].shape[3] * UpSampling2D(layer.args.upsample_size).size[2],
         out.inputs[2].shape[4]>>

C3_RouteMergeUpsampleShape ==
  C3_Case =>
    /\ out.err = ""
    /\ out.res.shape = <<out.inputs[2].shape[1], out.inputs[2].shape[2],
                         out.inputs[2].shape[3],
                         layer.args.filters + out.inputs[2].shape[4]>>
    /\ out.res.parts = <<"_upsample", "x_route">>

C3_Witness ==
  /\ C3_Case
  /\ layer.args.upsample_size = <<2, 1>>
  /\ layer.args.filters = 3
  /\ out.inputs[1].shape = <<1, 2, 2, 1>>
  /\ out.res.shape = <<1, 4, 2, 5>>

\* C4: in DarkRouteProcess and RouteMerge every sub-layer that build creates is
\* applied during call and its output flows into the returned output (so no
\* trainable variable is left without a gradient); for DarkRouteProcess, for
\* every repetitions >= 1, no built layer is left unused.
C4_AllBuiltLayersUsed ==
  /\ out.op = "DarkRouteProcess.call" =>
       IF out.err = ""
       THEN /\ layer.built
            /\ Len(layer.layers) >= 1
            /\ \A i \in 1..Len(layer.layers) :
                 layer.layers[i].built /\ LayerName(i - 1) \in out.res[2].deps
       ELSE /\ out.err = "ValueError"
            /\ layer._spp_keys = <<>>
            /\ \E i \in 1..Len(layer.layer_list) : layer.layer_list[i] = "spp"
  /\ (out.op = "RouteMerge.call" /\ out.err = "") =>
       /\ layer.built
       /\ HasVariables(layer._conv)
       /\ "_conv" \in out.res.deps

C4_Witness ==
  /\ out.op = "DarkRouteProcess.call"
  /\ layer.args.repetitions = 6
  /\ layer.args.insert_spp
  /\ Len(layer.layers) = 6
  /\ layer.layers[4].cls = "SPP"
  /\ out.res[2].deps = {LayerName(i) : i \in 0..5} \cup {"maxpool5", "maxpool9", "maxpool13"}

\* C9: CSPStack.call calls CSPRoute, then each element of model_to_wrap exactly
\* once in list order, then CSPConnect; the wrapped layers are applied to the
\* first output of CSPRoute only, and the second output of CSPRoute reaches
\* CSPConnect unmodified, where it is concatenated with the processed branch.
C9_StackOrder ==
  out.op = "CSPStack.call" =>
    LET t == out.trace
        items == layer._model_to_wrap.items
        n == Len(items)
    IN IF ~IsOk(t[1].ret[1])
       THEN /\ layer.args.filters < layer.args.filter_scale
            /\ zero_conv # ""
            /\ out.err = zero_conv
            /\ Len(t) = 1
            /\ t[1].callee = "_route"
            /\ ~layer._connect.built
       ELSE IF \E i \in 1..n : ~IsCallable(items[i])
       THEN LET first == CHOOSE i \in 1..n :
                           /\ ~IsCallable(items[i])
                           /\ \A j \in 1..(i - 1) : IsCallable(items[j])
            IN /\ out.err = "TypeError"
               /\ Len(t) = first + 1
               /\ t[1].callee = "_route"
               /\ \A i \in 1..first : t[i + 1].callee = items[i].name
               /\ ~layer._connect.built
       ELSE
       /\ Len(t) = n + 2
       /\ t[1].callee = "_route"
       /\ t[1].args = <<out.inputs>>
       /\ \A i \in 1..n :
            /\ t[i + 1].callee = items[i].name
            /\ t[i + 1].args = <<t[i].ret[1]>>
       /\ t[n + 2].callee = "_connect"
       /\ t[n + 2].args = <<t[n + 1].ret[1], t[1].ret[2]>>
       /\ t[1].ret[2].src = "_route._conv2"
       /\ t[1].ret[2].deps = {"_route._conv1", "_route._conv2"}
       /\ out.res = t[n + 2].ret[1]
       /\ out.err = "" =>
            \E k \in 1..Len(out.res.ops) :
              out.res.ops[k] = "Concatenate(_connect._conv1,_route._conv2)"

C9_Witness ==
  /\ out.op = "CSPStack.call"
  /\ out.err = ""
  /\ layer.args.model_to_wrap = PyList(<<PyCallable("m2", 0), PyCallable("m1", 0)>>)
  /\ Len(out.trace) = 4
  /\ out.trace[2].callee = "m2"
  /\ out.trace[3].callee = "m1"
  /\ {"m1", "m2", "_route._conv3", "_route._conv2"} \subseteq out.res.deps

\* C10: CSPStack's constructor normalises model_to_wrap into a list: None gives
\* the empty list, a callable gives the one-element list containing it, a list
\* is kept as given, and any other value raises ValueError without a CSPStack
\* being produced.  (The cases are tried in this order: a value that is both
\* callable and a list counts as a callable.)
C10_ModelToWrapNormalised ==
  out.op = "CSPStack.__init__" =>
    LET m == out.model_to_wrap
    IN IF m.kind = "None"
       THEN out.err = "" /\ layer.cls = "CSPStack" /\ layer._model_to_wrap = PyList(<<>>)
       ELSE IF IsCallable(m)
       THEN out.err = "" /\ layer.cls = "CSPStack" /\ layer._model_to_wrap = PyList(<<m>>)
       ELSE IF IsList(m)
       THEN out.err = "" /\ layer.cls = "CSPStack" /\ layer._model_to_wrap = m
       ELSE out.err = "ValueError" /\ layer = NoLayer

C10_Witness ==
  /\ out.op = "CSPStack.__init__"
  /\ out.model_to_wrap.kind = "tuple"
  /\ out.err = "ValueError"
  /\ layer = NoLayer

\* C5: running main with pix3d_dir set converts the dataset: main reaches
\* _create_tf_record_from_pix3d_dir (and so write_tf_record_dataset) and record
\* files are written under output_file_prefix.
C5_MainConverts ==
  (out.op = "main" /\ Len(out.flags.pix3d_dir) > 0) =>
    /\ out.err = ""
    /\ \E i \in 1..Len(out.calls) : out.calls[i] = "_create_tf_record_from_pix3d_dir"

\* C6: every key create_tf_example reads from its image argument is present in
\* every dict generate_annotations yields, so create_tf_example does not fail
\* with a missing key on such a record.
C6_KeysPresent ==
  /\ (out.op = "next" /\ out.err = "") => create_tf_example_keys \subseteq DOMAIN out.res
  /\ out.op = "create_tf_example" => out.err # "KeyError"

\* C7: for ConvBN and DarkResidual, cls(**layer.get_config()) succeeds and
\* yields a layer with an equal get_config().
C7_ConfigReconstructs ==
  (out.op = "reconstruct" /\ layer.cls \in {"ConvBN", "DarkResidual"}) =>
    /\ out.err = ""
    /\ out.copy.cls = layer.cls
    /\ out.copy_config = out.config

\* C8: CSPTiny.get_config returns a configuration dictionary: every attribute
\* it reads has been assigned by __init__, so the call raises no AttributeError.
C8_TinyConfigReturns ==
  (out.op = "get_config" /\ layer.cls = "CSPTiny") =>
    /\ out.err = ""
    /\ "filters" \in DOMAIN out.config

----------------------------------------------------------------------------
\* C11: constructing SPP with an empty list of sizes raises ValueError and
\* yields no layer; constructing it with any non-empty list, a list of one pool
\* size included, yields an SPP layer.
C11_SppSizesChecked ==
  out.op = "SPP.__init__" =>
    IF Len(out.sizes) = 0
    THEN out.err = "ValueError" /\ layer = NoLayer
    ELSE out.err = "" /\ layer.cls = "SPP" /\ layer.args.sizes = out.sizes

C11_Witness ==
  /\ out.op = "SPP.__init__"
  /\ Len(out.sizes) = 1
  /\ out.err = ""
  /\ layer.cls = "SPP"
  /\ Len(layer._sizes) = 1

\* C12: in every call of RouteMerge exactly one of downsampling (the strided
\* convolution) and upsampling is applied to the convolved input, and when
\* downsample is False the convolved input is upsampled before concatenation.
C12_XorSampling ==
  out.op = "RouteMerge.call" =>
    LET down == layer._conv._strides = <<2, 2>>
        up == \E k \in 1..Len(out.res.ops) : out.res.ops[k] = "_upsample/UpSampling2D"
    IN /\ down # up
       /\ ~layer.args.downsample => up

\* C13: a DarkRouteProcess constructed with insert_spp = True and
\* repetitions >= 3 has an 'spp' entry in its layer list, and build creates an
\* SPP layer for it.
C13_SppInserted ==
  (/\ layer.cls = "DarkRouteProcess"
   /\ layer.args.insert_spp
   /\ layer.args.repetitions >= 3) =>
    /\ \E i \in 1..Len(layer.layer_list) : layer.layer_list[i] = "spp"
    /\ layer.built => \E i \in 1..Len(layer.layers) : layer.layers[i].cls = "SPP"

\* C14: the convolution ConvBN builds has a bias term if and only if use_bn is
\* False, whatever the other arguments are.
C14_BiasIffNoBatchNorm ==
  out.op = "ConvBN.call" => (layer.conv.use_bias <=> ~layer.args.use_bn)

C14_Witness ==
  /\ out.op = "ConvBN.call"
  /\ ~layer.args.use_bn
  /\ layer.args.use_sync_bn
  /\ layer.conv.use_bias

C16_Original ==
  (/\ out.op = "CSPStack.call"
   /\ \A i \in 1..Len(layer._model_to_wrap.items) :
        /\ IsCallable(layer._model_to_wrap.items[i])
        /\ layer._model_to_wrap.items[i].depth = 0) =>
    /\ out.err = ""
    /\ LET connect == out.trace[Len(out.trace)]
           x_prev == connect.args[1]
           x_csp == connect.args[2]
           depth == layer.args.filters \div layer.args.filter_scale
           reduced == Apply(layer._connect._conv1, x_prev, "_connect._conv1")
       IN /\ connect.callee = "_connect"
          /\ reduced.shape[4] = depth
          /\ x_csp.shape[4] = depth
          /\ SameSpatial(reduced, x_csp)
          /\ out.res.shape = <<x_csp.shape[1], x_csp.shape[2], x_csp.shape[3],
                               layer.args.filters>>

\* C16 amended: the same for every filters >= filter_scale >= 1, that is when
\* no convolution of the stack has zero filters.
C16_StackDepth ==
  (/\ out.op = "CSPStack.call"
   /\ layer.args.filters >= layer.args.filter_scale
   /\ \A i \in 1..Len(layer._model_to_wrap.items) :
        /\ IsCallable(layer._model_to_wrap.items[i])
        /\ layer._model_to_wrap.items[i].depth = 0) =>
    LET connect == out.trace[Len(out.trace)]
        x_prev == connect.args[1]
        x_csp == connect.args[2]
        depth == layer.args.filters \div layer.args.filter_scale
        reduced == Apply(layer._connect._conv1, x_prev, "_connect._conv1")
    IN /\ out.err = ""
       /\ connect.callee = "_connect"
       /\ reduced.shape[4] = depth
       /\ x_csp.shape[4] = depth
       /\ SameSpatial(reduced, x_csp)
       /\ out.res.shape = <<x_csp.shape[1], x_csp.shape[2], x_csp.shape[3],
                            layer.args.filters>>

C16_Witness ==
  /\ out.op = "CSPStack.call"
  /\ layer.args.filters = 3
  /\ layer.args.filter_scale = 2
  /\ layer.args.model_to_wrap = PyList(<<PyCallable("m1", 0), PyCallable("m2", 0)>>)
  /\ out.err = ""
  /\ out.res.shape[4] = 3

\* C17: in DarkResidual with downsample = True both operands of the addition
\* have shape [B, ceil(W/2), ceil(H/2), filters] whatever the input depth; with
\* downsample = False the shortcut is the input itself and the operands have
\* the same shape exactly when the input depth is filters; a call that
\* succeeds returns depth filters.
C17_ResidualShapes ==
  out.op = "DarkResidual.call" =>
    LET x == out.operands[1]
        shortcut == out.operands[2]
        inp == out.inputs
        halved == <<inp.shape[1], CeilDiv(inp.shape[2], 2), CeilDiv(inp.shape[3], 2),
                    layer.args.filters>>
    IN /\ layer.args.downsample => (x.shape = halved /\ shortcut.shape = halved)
       /\ ~layer.args.downsample =>
            /\ shortcut = inp
            /\ (x.shape = shortcut.shape) <=> (inp.shape[4] = layer.args.filters)
       /\ out.err = "" => out.res.shape[4] = layer.args.filters

\* C18: create_tf_example raises ValueError when the image file the record
\* names is not found under pix3d_dir, and then returns no example.
C18_MissingImageRaises ==
  (/\ out.op = "create_tf_example"
   /\ PathJoin(out.image.pix3d_dir, out.image.img) \notin fs.files) =>
    /\ out.err = "ValueError"
    /\ ~out.returned

\* C19: for every non-empty sizes, SPP(**SPP(sizes).get_config()) is
\* constructed, builds the same pools in the same order as SPP(sizes), and has
\* an equal get_config()['sizes'].
C19_SppRoundTrip ==
  (out.op = "reconstruct" /\ layer.cls = "SPP") =>
    /\ out.err = ""
    /\ out.copy.cls = "SPP"
    /\ SPP_build(out.copy)._maxpools = SPP_build(layer)._maxpools
    /\ out.copy_config.sizes = out.config.sizes

\* C20: ConvBN.call applies the convolution, then the normalisation, then the
\* activation; the normalisation is SyncBatchNormalization iff use_bn and
\* use_sync_bn, BatchNormalization iff use_bn and not use_sync_bn, and the
\* Identity layer, which returns its input, iff not use_bn.
C20_ConvNormActivation ==
  out.op = "ConvBN.call" =>
    LET conv == <<"conv_bn/Conv2D">>
        norm == IF layer.bn = "Identity" THEN <<>> ELSE <<"conv_bn/" \o layer.bn>>
        activation == <<"conv_bn/" \o layer._activation_fn>>
    IN /\ layer.bn = "SyncBatchNormalization"
            <=> (layer.args.use_bn /\ layer.args.use_sync_bn)
       /\ layer.bn = "BatchNormalization"
            <=> (layer.args.use_bn /\ ~layer.args.use_sync_bn)
       /\ layer.bn = "Identity" <=> ~layer.args.use_bn
       /\ out.err = ""
       /\ out.res.ops = out.inputs.ops \o conv \o norm \o activation
       /\ layer.bn = "Identity" =>
            Identity_call(Identity, Conv2D_call(layer.conv, out.inputs, "conv_bn")).shape
              = out.res.shape

C20_Witness ==
  /\ out.op = "ConvBN.call"
  /\ layer.args.use_bn
  /\ layer.args.use_sync_bn
  /\ layer.args.activation = "mish"
  /\ out.res.ops = <<"conv_bn/Conv2D", "conv_bn/SyncBatchNormalization", "conv_bn/mish">>

\* C21: Decoder.decode returns a dict with exactly the keys 'image/encoded'
\* and 'image/class/label'; the value under 'image/class/label' is the
\* argument's 'label' value unchanged; the argument is left as it was.
C21_DecodeFrame ==
  out.op = "Decoder.decode" =>
    /\ out.example_after = out.serialized_example
    /\ out.err = "" =>
         /\ DOMAIN out.res = {"image/encoded", "image/class/label"}
         /\ out.res["image/class/label"] = out.serialized_example["label"]

C21_Witness ==
  /\ out.op = "Decoder.decode"
  /\ out.err = ""
  /\ DOMAIN out.serialized_example = {"image", "label", "file_name"}
  /\ out.serialized_example["label"] = 7
  /\ out.res["image/class/label"] = 7
  /\ out.res["image/encoded"].format = "jpeg"
  /\ out.example_after = out.serialized_example

====
